---- MODULE Spec2Model ----
(***************************************************************************)
(* A model of bcoin's blockchain state engine: the chain database          *)
(* (chaindb.js), the UTXO overlay (coinview.js, coins.js), chain entries   *)
(* (chainentry.js) and the mempool (mempool.js).                           *)
(***************************************************************************)
EXTENDS Integers, Sequences, FiniteSets, TLC

VARIABLES
  options,      \* ChainDB.prune and ChainDB.keepBlocks, set by the constructor
  db,           \* the key/value store: R, e, h, H, n, b, c, u, q
  cacheHash,    \* ChainDB.cacheHash : hash -> entry
  cacheHeight,  \* ChainDB.cacheHeight : height -> entry
  coinCache,    \* ChainDB.coinCache : tx hash -> raw coins
  tip,          \* chain.tip (hash of the entry)
  job,          \* ChainDB calls still to be made for the block being added
  last,         \* the call made last, what it saw and how it ended
  reorgs,       \* the tips left behind by completed reorganizations, in order
  mp,           \* the mempool: its indexes, its size and its lock
  done,         \* the mempool call that returned in the last step
  calls,        \* how many transactions and block events the mempool was sent,
                \* and how many times the chain was reset
  txdb,         \* the wallet's transaction database: t, s, c, d, o
  wdone,        \* the wallet call made last, what it returned and emitted
  unit          \* the one function called on its own: its input and its result

chainVars == <<options, db, cacheHash, cacheHeight, coinCache, tip, job, last, reorgs>>

vars == <<options, db, cacheHash, cacheHeight, coinCache, tip, job, last, reorgs, mp, done, calls,
          txdb, wdone, unit>>

walletVars == <<txdb, wdone>>

unitVars == <<unit>>

-----------------------------------------------------------------------------
(* Values *)

NULL_HASH == "0"

\* JS null / undefined where an object is expected
Null == [null |-> TRUE]

\* JS null / undefined where a hash is expected
NoHash == "null"

GENESIS == "G"

\* the exponent of MAX_CHAINWORK, scaled down from 256
WorkBits == 8

\* network.pow.limit as a target (regtest), scaled with WorkBits
PowLimit == 63

UNCONFIRMED == 2147483647

Put(m, k, v) == [x \in (DOMAIN m) \cup {k} |-> IF x = k THEN v ELSE m[x]]

Del(m, k) == [x \in (DOMAIN m) \ {k} |-> m[x]]

Has(m, k) == k \in DOMAIN m

Get(m, k) == IF k \in DOMAIN m THEN m[k] ELSE Null

GetHash(m, k) == IF k \in DOMAIN m THEN m[k] ELSE NoHash

EmptyMap == [x \in {} |-> Null]

Script(type, data) == [type |-> type, data |-> data]

Output(value, script) == [value |-> value, script |-> script]

Outpoint(hash, index) == [hash |-> hash, index |-> index]

InSeq(xs, x) == \E i \in 1..Len(xs) : xs[i] = x

-----------------------------------------------------------------------------
(* The transactions and blocks the chain is offered *)

CoinbaseInput == <<Outpoint(NULL_HASH, 0)>>

TXS ==
  [ cg  |-> [version |-> 1, inputs |-> CoinbaseInput,
             outputs |-> <<Output(50, Script("raw", "g"))>>],
    ca1 |-> [version |-> 1, inputs |-> CoinbaseInput,
             outputs |-> <<Output(30, Script("pkh", "k1")), Output(20, Script("sh", "s1"))>>],
    ca2 |-> [version |-> 1, inputs |-> CoinbaseInput,
             outputs |-> <<Output(50, Script("pkh", "k2"))>>],
    ta2 |-> [version |-> 2, inputs |-> <<Outpoint("ca1", 1)>>,
             outputs |-> <<Output(20, Script("raw", "r1"))>>],
    ca3 |-> [version |-> 1, inputs |-> CoinbaseInput,
             outputs |-> <<Output(50, Script("pkh", "k3")), Output(0, Script("nulldata", "d"))>>],
    ta3 |-> [version |-> 1, inputs |-> <<Outpoint("ca1", 0)>>,
             outputs |-> <<Output(10, Script("pkh", "k4")), Output(20, Script("sh", "s2"))>>],
    tb3 |-> [version |-> 1, inputs |-> <<Outpoint("ta3", 1), Outpoint("ta2", 0)>>,
             outputs |-> <<Output(40, Script("pkh", "k5"))>>],
    tc3 |-> [version |-> 1, inputs |-> <<Outpoint("ta2", 0)>>,
             outputs |-> <<Output(20, Script("sh", "s5"))>>],
    td3 |-> [version |-> 1, inputs |-> <<Outpoint("ta2", 0)>>,
             outputs |-> <<Output(10, Script("pkh", "k13")), Output(5, Script("pkh", "k14"))>>],
    ca4 |-> [version |-> 1, inputs |-> CoinbaseInput,
             outputs |-> <<Output(50, Script("pkh", "k10"))>>],
    cb1 |-> [version |-> 1, inputs |-> CoinbaseInput,
             outputs |-> <<Output(50, Script("pkh", "k6"))>>],
    cb2 |-> [version |-> 1, inputs |-> CoinbaseInput,
             outputs |-> <<Output(50, Script("sh", "s3"))>>],
    cb3 |-> [version |-> 1, inputs |-> CoinbaseInput,
             outputs |-> <<Output(50, Script("pkh", "k11"))>>],
    tb2 |-> [version |-> 1, inputs |-> <<Outpoint("cb1", 0)>>,
             outputs |-> <<Output(50, Script("raw", "r2"))>>],
    cx  |-> [version |-> 1, inputs |-> CoinbaseInput,
             outputs |-> <<Output(50, Script("pkh", "k7"))>>],
    tx  |-> [version |-> 1, inputs |-> <<Outpoint("cb1", 0)>>,
             outputs |-> <<Output(50, Script("pkh", "k8"))>>],
    cy  |-> [version |-> 1, inputs |-> CoinbaseInput,
             outputs |-> <<Output(50, Script("sh", "s4"))>>],
    ty  |-> [version |-> 2, inputs |-> <<Outpoint("ca1", 1)>>,
             outputs |-> <<Output(15, Script("pkh", "k12"))>>],
    cz  |-> [version |-> 1, inputs |-> CoinbaseInput,
             outputs |-> <<Output(50, Script("pkh", "k9"))>>] ]

\* bits is modelled by the target it encodes (utils.fromCompact is not modelled)
BLOCKS ==
  [ G  |-> [prevBlock |-> NULL_HASH, bits |-> 63, ts |-> 1, txs |-> <<"cg">>],
    A1 |-> [prevBlock |-> "G",  bits |-> 63, ts |-> 2, txs |-> <<"ca1">>],
    A2 |-> [prevBlock |-> "A1", bits |-> 63, ts |-> 3, txs |-> <<"ca2", "ta2">>],
    A3 |-> [prevBlock |-> "A2", bits |-> 63, ts |-> 4, txs |-> <<"ca3", "ta3", "tb3">>],
    A4 |-> [prevBlock |-> "A3", bits |-> 15, ts |-> 5, txs |-> <<"ca4">>],
    B1 |-> [prevBlock |-> "G",  bits |-> 63, ts |-> 2, txs |-> <<"cb1">>],
    B2 |-> [prevBlock |-> "B1", bits |-> 31, ts |-> 3, txs |-> <<"cb2", "tb2">>],
    B3 |-> [prevBlock |-> "B2", bits |-> 63, ts |-> 4, txs |-> <<"cb3">>],
    X  |-> [prevBlock |-> "A1", bits |-> 31, ts |-> 3, txs |-> <<"cx", "tx">>],
    Y  |-> [prevBlock |-> "A1", bits |-> 15, ts |-> 3, txs |-> <<"cy", "ty">>],
    Z  |-> [prevBlock |-> "A1", bits |-> 0,  ts |-> 3, txs |-> <<"cz">>] ]

BlockHashes == DOMAIN BLOCKS

TxHashes == DOMAIN TXS

IsCoinbase(t) == Len(t.inputs) = 1 /\ t.inputs[1].hash = NULL_HASH

IsUnspendable(script) == script.type = "nulldata"

-----------------------------------------------------------------------------
(* chainentry.js *)

RECURSIVE Pow2(_)
Pow2(n) == IF n = 0 THEN 1 ELSE 2 * Pow2(n - 1)

MAX_CHAINWORK == Pow2(WorkBits)

GetProof(bits) ==
  IF bits <= 0 THEN 0 ELSE MAX_CHAINWORK \div (bits + 1)

GetChainwork(bits, prev) ==
  IF prev = Null THEN GetProof(bits) ELSE GetProof(bits) + prev.chainwork

\* ChainEntry.fromBlock; block.height has been set by the chain to prev.height + 1
EntryFromBlock(hash, prev) ==
  [ hash      |-> hash,
    prevBlock |-> BLOCKS[hash].prevBlock,
    bits      |-> BLOCKS[hash].bits,
    ts        |-> BLOCKS[hash].ts,
    height    |-> IF prev = Null THEN 0 ELSE prev.height + 1,
    chainwork |-> GetChainwork(BLOCKS[hash].bits, prev) ]

-----------------------------------------------------------------------------
(* coins.js *)

Coin(t, hash, index, height) ==
  [ version  |-> TXS[hash].version,
    height   |-> height,
    coinbase |-> IsCoinbase(TXS[hash]),
    value    |-> t.outputs[index + 1].value,
    script   |-> t.outputs[index + 1].script,
    hash     |-> hash,
    index    |-> index ]

NewCoins ==
  [version |-> 1, hash |-> NULL_HASH, height |-> -1, coinbase |-> TRUE, outputs |-> <<>>]

RECURSIVE PadNull(_, _)
PadNull(outputs, len) ==
  IF Len(outputs) >= len THEN outputs ELSE PadNull(Append(outputs, Null), len)

CoinsAdd(coins, coin) ==
  LET c1 == IF Len(coins.outputs) = 0
            THEN [coins EXCEPT !.version = coin.version, !.hash = coin.hash,
                               !.height = coin.height, !.coinbase = coin.coinbase]
            ELSE coins
      padded == PadNull(c1.outputs, coin.index + 1)
  IN [c1 EXCEPT !.outputs =
        [padded EXCEPT ![coin.index + 1] =
           IF IsUnspendable(coin.script) THEN Null ELSE coin]]

CoinsGet(coins, index) ==
  IF index + 1 <= Len(coins.outputs) THEN coins.outputs[index + 1] ELSE Null

CoinsHas(coins, index) == CoinsGet(coins, index) # Null

CoinsCount(coins) ==
  Cardinality({i \in 1..Len(coins.outputs) : coins.outputs[i] # Null})

\* outputs[index] = null also lengthens the array when index is past its end
CoinsSpend(coins, index) ==
  [coins EXCEPT !.outputs = [PadNull(coins.outputs, index + 1) EXCEPT ![index + 1] = Null]]

CoinsFromTX(hash, height) ==
  [ version  |-> TXS[hash].version,
    hash     |-> hash,
    height   |-> height,
    coinbase |-> IsCoinbase(TXS[hash]),
    outputs  |-> [i \in 1..Len(TXS[hash].outputs) |->
                    IF IsUnspendable(TXS[hash].outputs[i].script)
                    THEN Null
                    ELSE Coin(TXS[hash], hash, i - 1, height)] ]

Compress(coin) ==
  IF coin.script.type = "pkh" THEN [prefix |-> 1, data |-> coin.script.data, value |-> coin.value]
  ELSE IF coin.script.type = "sh" THEN [prefix |-> 2, data |-> coin.script.data, value |-> coin.value]
  ELSE [prefix |-> 0, data |-> coin.script.data, value |-> coin.value]

SpentByte == [prefix |-> 255, data |-> "", value |-> 0]

\* writeU32(((height << 1) | coinbase) >>> 0): the u32 is kept as its upper 31
\* bits and its lowest bit, the shift of a height below 2^31 losing nothing
Mask(height, coinbase) ==
  [upper |-> height, bit0 |-> IF coinbase THEN 1 ELSE 0]

CoinsToRaw(coins) ==
  [ version  |-> coins.version,
    mask     |-> Mask(IF coins.height = -1 THEN UNCONFIRMED ELSE coins.height, coins.coinbase),
    outs     |-> [i \in 1..Len(coins.outputs) |->
                    IF coins.outputs[i] = Null THEN SpentByte ELSE Compress(coins.outputs[i])] ]

\* height >>> 1 of the u32 read back, 0x7fffffff standing for -1
RawHeight(raw) ==
  IF raw.mask.upper = UNCONFIRMED THEN -1 ELSE raw.mask.upper

\* (height & 1) !== 0
RawCoinbase(raw) == raw.mask.bit0 # 0

\* DeferredCoin.toCoin
ToCoin(raw, hash, i) ==
  LET o == raw.outs[i]
  IN [ version  |-> raw.version,
       height   |-> RawHeight(raw),
       coinbase |-> RawCoinbase(raw),
       value    |-> o.value,
       script   |-> IF o.prefix = 1 THEN Script("pkh", o.data)
                    ELSE IF o.prefix = 2 THEN Script("sh", o.data)
                    ELSE Script("raw", o.data),
       hash     |-> hash,
       index    |-> i - 1 ]

CoinsFromRaw_KeepUnconfirmed(raw, hash) ==
  [ version  |-> raw.version,
    hash     |-> hash,
    height   |-> raw.mask.upper,
    coinbase |-> RawCoinbase(raw),
    outputs  |-> [i \in 1..Len(raw.outs) |->
                    IF raw.outs[i] = SpentByte THEN Null ELSE ToCoin(raw, hash, i)] ]

CoinsFromRaw(raw, hash) ==
  [ version  |-> raw.version,
    hash     |-> hash,
    height   |-> RawHeight(raw),
    coinbase |-> RawCoinbase(raw),
    outputs  |-> [i \in 1..Len(raw.outs) |->
                    IF raw.outs[i] = SpentByte THEN Null ELSE ToCoin(raw, hash, i)] ]

\* assert(index == null, 'Bad coin index.') at the end of fromRaw
BadCoinIndex == [throw |-> "Bad coin index."]

\* Coins.parseCoin: fromRaw(data, hash, index) stops at slot index
ParseCoin(raw, hash, index) ==
  IF index + 1 > Len(raw.outs) THEN BadCoinIndex
  ELSE IF raw.outs[index + 1] = SpentByte THEN Null
  ELSE ToCoin(raw, hash, index + 1)

\* Coin.toRaw / Coin.fromRaw of an undo record: the coin without its outpoint
UndoToRaw(coin) ==
  [version |-> coin.version, height |-> coin.height, value |-> coin.value,
   script |-> coin.script, coinbase |-> coin.coinbase]

UndoFromRaw(raw, prevout) ==
  [version |-> raw.version, height |-> raw.height, coinbase |-> raw.coinbase,
   value |-> raw.value, script |-> raw.script,
   hash |-> prevout.hash, index |-> prevout.index]

-----------------------------------------------------------------------------
(* coinview.js: a view is a map tx hash -> Coins *)

ViewAdd(view, coins) == Put(view, coins.hash, coins)

ViewAddCoin(view, coin) ==
  Put(view, coin.hash,
      CoinsAdd(IF Has(view, coin.hash) THEN view[coin.hash] ELSE NewCoins, coin))

ViewAddTX(view, hash, height) == ViewAdd(view, CoinsFromTX(hash, height))

ViewGet(view, hash, index) ==
  IF Has(view, hash) THEN CoinsGet(view[hash], index) ELSE Null

ViewSpend(view, hash, index) ==
  IF Has(view, hash) THEN Put(view, hash, CoinsSpend(view[hash], index)) ELSE view

\* fillCoins that reads each coin and leaves it unspent in the view
RECURSIVE ViewFillCoins_NoSpend(_, _, _, _)
ViewFillCoins_NoSpend(view, inputs, i, filled) ==
  IF i > Len(inputs) THEN [ok |-> TRUE, view |-> view, coins |-> filled]
  ELSE LET coin == ViewGet(view, inputs[i].hash, inputs[i].index)
       IN IF coin = Null
          THEN [ok |-> FALSE, view |-> view, coins |-> filled]
          ELSE ViewFillCoins_NoSpend(view, inputs, i + 1, Append(filled, coin))

\* fillCoins: spend each prevout in turn; stop at the first that is missing
RECURSIVE ViewFillCoins(_, _, _, _)
ViewFillCoins(view, inputs, i, filled) ==
  IF i > Len(inputs) THEN [ok |-> TRUE, view |-> view, coins |-> filled]
  ELSE LET coin == ViewGet(view, inputs[i].hash, inputs[i].index)
           v2   == ViewSpend(view, inputs[i].hash, inputs[i].index)
       IN IF coin = Null
          THEN [ok |-> FALSE, view |-> v2, coins |-> filled]
          ELSE ViewFillCoins(v2, inputs, i + 1, Append(filled, coin))

-----------------------------------------------------------------------------
(* chaindb.js.  A ChainDB state is the record                               *)
(* [db, cacheHash, cacheHeight, coinCache]; a batch is a sequence of puts   *)
(* and dels that batch.write applies to db at once.                         *)

BatchPut(p, k, v) == [op |-> "put", p |-> p, k |-> k, v |-> v]

BatchDel(p, k) == [op |-> "del", p |-> p, k |-> k, v |-> Null]

ApplyOp(d, o) ==
  IF o.p = "R"
  THEN [d EXCEPT !.R = IF o.op = "put" THEN o.v ELSE NoHash]
  ELSE [d EXCEPT ![o.p] = IF o.op = "put" THEN Put(@, o.k, o.v) ELSE Del(@, o.k)]

RECURSIVE BatchWrite(_, _)
BatchWrite(d, batch) ==
  IF batch = <<>> THEN d ELSE BatchWrite(ApplyOp(d, Head(batch)), Tail(batch))

ChainGetHeight(S, hash) ==
  IF hash = NoHash \/ hash = NULL_HASH THEN -1
  ELSE IF Has(S.cacheHash, hash) THEN S.cacheHash[hash].height
  ELSE IF Has(S.db.h, hash) THEN S.db.h[hash]
  ELSE -1

ChainGetHash(S, height) ==
  IF height < 0 THEN NoHash
  ELSE IF Has(S.cacheHeight, height) THEN S.cacheHeight[height].hash
  ELSE GetHash(S.db.H, height)

\* getEntry with a hash
GetEntryByHash(S, hash) ==
  IF hash = NoHash THEN Null
  ELSE IF Has(S.cacheHash, hash) THEN S.cacheHash[hash]
  ELSE Get(S.db.e, hash)

\* getEntry with a height
GetEntryByHeight(S, height) == GetEntryByHash(S, ChainGetHash(S, height))

ChainGetTip(S) == GetEntryByHash(S, S.db.R)

ChainHas(S, hash) == ChainGetHeight(S, hash) # -1

IsMainChain(S, chainTip, hash) ==
  IF hash = chainTip \/ hash = GENESIS THEN TRUE
  ELSE LET existing == ChainGetHash(S, ChainGetHeight(S, hash))
       IN existing # NoHash /\ hash = existing

ChainGetCoins(S, hash) ==
  IF Has(S.coinCache, hash) THEN CoinsFromRaw(S.coinCache[hash], hash)
  ELSE IF Has(S.db.c, hash) THEN CoinsFromRaw(S.db.c[hash], hash)
  ELSE Null

ChainGetCoin(S, hash, index) ==
  LET coins == ChainGetCoins(S, hash)
  IN IF coins = Null THEN Null ELSE CoinsGet(coins, index)

\* getBlock: the stored body of the block, or nothing
ChainGetBlock(S, hash) ==
  IF ChainGetHeight(S, hash) = -1 THEN NoHash
  ELSE IF Has(S.db.b, hash) THEN hash ELSE NoHash

RECURSIVE SeqOfSet(_)
SeqOfSet(s) ==
  IF s = {} THEN <<>>
  ELSE LET x == CHOOSE y \in s : TRUE IN <<x>> \o SeqOfSet(s \ {x})

\* the inputs of the block's transactions, coinbases left out, in block order
RECURSIVE BlockInputs(_, _)
BlockInputs(txs, i) ==
  IF i > Len(txs) THEN <<>>
  ELSE (IF IsCoinbase(TXS[txs[i]]) THEN <<>> ELSE TXS[txs[i]].inputs)
       \o BlockInputs(txs, i + 1)

\* block.getPrevout: the distinct hashes the block's inputs refer to
BlockPrevout(hash) ==
  LET ins == BlockInputs(BLOCKS[hash].txs, 1)
  IN {ins[i].hash : i \in 1..Len(ins)}

RECURSIVE CoinViewOf(_, _, _)
CoinViewOf(S, hashes, view) ==
  IF hashes = <<>> THEN view
  ELSE LET coins == ChainGetCoins(S, Head(hashes))
       IN CoinViewOf(S, Tail(hashes),
                     IF coins = Null THEN view ELSE ViewAdd(view, coins))

GetCoinView(S, hash) == CoinViewOf(S, SeqOfSet(BlockPrevout(hash)), EmptyMap)

RECURSIVE AddUndoCoins(_, _, _, _)
AddUndoCoins(view, ins, undo, k) ==
  IF k > Len(ins) THEN view
  ELSE AddUndoCoins(ViewAddCoin(view, UndoFromRaw(undo[k], ins[k])), ins, undo, k + 1)

GetUndoView(S, hash) ==
  LET view == GetCoinView(S, hash)
  IN IF ~Has(S.db.u, hash) THEN view
     ELSE AddUndoCoins(view, BlockInputs(BLOCKS[hash].txs, 1), S.db.u[hash], 1)

\* coins.size() === 0 decides between deleting and rewriting a record
CoinsSize(coins) == CoinsCount(coins)

\* the loop that rewrites a record with no unspent output instead of deleting it
RECURSIVE WriteView_NoDelete(_, _, _, _)
WriteView_NoDelete(view, hashes, cache, batch) ==
  IF hashes = <<>> THEN [coinCache |-> cache, batch |-> batch]
  ELSE LET coins == view[Head(hashes)]
       IN WriteView_NoDelete(view, Tail(hashes), Put(cache, coins.hash, CoinsToRaw(coins)),
                             Append(batch, BatchPut("c", coins.hash, CoinsToRaw(coins))))

\* the loop over view.toArray() of connectBlock and disconnectBlock
RECURSIVE WriteView(_, _, _, _)
WriteView(view, hashes, cache, batch) ==
  IF hashes = <<>> THEN [coinCache |-> cache, batch |-> batch]
  ELSE LET coins == view[Head(hashes)]
       IN IF CoinsSize(coins) = 0
          THEN WriteView(view, Tail(hashes), Del(cache, coins.hash),
                         Append(batch, BatchDel("c", coins.hash)))
          ELSE WriteView(view, Tail(hashes), Put(cache, coins.hash, CoinsToRaw(coins)),
                         Append(batch, BatchPut("c", coins.hash, CoinsToRaw(coins))))

\* options.keepBlocks, 288 unless the constructor is given another number
KeepBlocks == 2

\* network.block.pruneAfterHeight
PruneAfterHeight == 0

\* _pruneBlock that reads the key of the next height
PruneBlock_Early(S, hash, height, batch) ==
  IF ~S.options.prune THEN batch
  ELSE IF height <= PruneAfterHeight THEN batch
  ELSE LET b1 == Append(batch, BatchPut("q", height + S.options.keepBlocks, hash))
           target == GetHash(S.db.q, height + 1)
       IN IF target = NoHash THEN b1
          ELSE b1 \o <<BatchDel("q", height + 1), BatchDel("b", target),
                       BatchDel("u", target)>>

\* _pruneBlock(block, batch): the key q[height] is read from the store, not
\* from the batch
PruneBlock(S, hash, height, batch) ==
  IF ~S.options.prune THEN batch
  ELSE IF height <= PruneAfterHeight THEN batch
  ELSE LET b1 == Append(batch, BatchPut("q", height + S.options.keepBlocks, hash))
           target == GetHash(S.db.q, height)
       IN IF target = NoHash THEN b1
          ELSE b1 \o <<BatchDel("q", height), BatchDel("b", target),
                       BatchDel("u", target)>>

RECURSIVE UndoOf(_, _)
UndoOf(filled, i) ==
  IF i > Len(filled) THEN <<>> ELSE <<UndoToRaw(filled[i])>> \o UndoOf(filled, i + 1)

\* connectBlock(block, view, batch); filled holds input.coin of every input
ConnectBlock(S, hash, view, filled, batch) ==
  IF hash = GENESIS THEN [S |-> S, batch |-> batch]
  ELSE LET w    == WriteView(view, SeqOfSet(DOMAIN view), S.coinCache, batch)
           undo == UndoOf(filled, 1)
       IN [ S     |-> [S EXCEPT !.coinCache = w.coinCache],
            batch |-> PruneBlock(S, hash, GetEntryByHash(S, hash).height,
                                 IF Len(undo) > 0
                                 THEN Append(w.batch, BatchPut("u", hash, undo))
                                 ELSE w.batch) ]

SaveBlock(S, hash, view, filled, batch, connect) ==
  LET b1 == Append(batch, BatchPut("b", hash, hash))
  IN IF ~connect THEN [S |-> S, batch |-> b1]
     ELSE ConnectBlock(S, hash, view, filled, b1)

\* save that writes the main-chain pointers whatever connect says
Save_AlwaysMain(S, entry, view, filled, connect) ==
  LET hash == entry.hash
      b0 == <<BatchPut("h", hash, entry.height), BatchPut("e", hash, entry),
              BatchPut("n", entry.prevBlock, hash),
              BatchPut("H", entry.height, hash)>>
      S1 == [S EXCEPT !.cacheHash = Put(@, hash, entry),
                      !.cacheHeight = Put(@, entry.height, entry)]
  IN IF ~connect THEN SaveBlock(S1, hash, view, filled, b0, FALSE)
     ELSE SaveBlock(S1, hash, view, filled, Append(b0, BatchPut("R", "R", hash)), TRUE)

\* save(entry, block, view, connect) up to its batch.write
Save(S, entry, view, filled, connect) ==
  LET hash == entry.hash
      b0 == <<BatchPut("h", hash, entry.height), BatchPut("e", hash, entry)>>
      S1 == [S EXCEPT !.cacheHash = Put(@, hash, entry)]
  IN IF ~connect THEN SaveBlock(S1, hash, view, filled, b0, FALSE)
     ELSE SaveBlock([S1 EXCEPT !.cacheHeight = Put(@, entry.height, entry)],
                    hash, view, filled,
                    b0 \o <<BatchPut("n", entry.prevBlock, hash),
                            BatchPut("H", entry.height, hash),
                            BatchPut("R", "R", hash)>>,
                    TRUE)

\* reconnect that leaves the height index alone
Reconnect_NoHeight(S, entry, view, filled) ==
  ConnectBlock([S EXCEPT !.cacheHash = Put(@, entry.hash, entry)],
               entry.hash, view, filled,
               <<BatchPut("n", entry.prevBlock, entry.hash),
                 BatchPut("R", "R", entry.hash)>>)

\* reconnect(entry, block, view) up to its batch.write
Reconnect(S, entry, view, filled) ==
  ConnectBlock([S EXCEPT !.cacheHash = Put(@, entry.hash, entry),
                         !.cacheHeight = Put(@, entry.height, entry)],
               entry.hash, view, filled,
               <<BatchPut("n", entry.prevBlock, entry.hash),
                 BatchPut("H", entry.height, entry.hash),
                 BatchPut("R", "R", entry.hash)>>)

\* the loop of disconnectBlock over the block's transactions, last first
RECURSIVE SpendOutputs(_, _, _)
SpendOutputs(view, hash, j) ==
  IF j > Len(TXS[hash].outputs) THEN view
  ELSE SpendOutputs(IF IsUnspendable(TXS[hash].outputs[j].script)
                    THEN view ELSE ViewSpend(view, hash, j - 1),
                    hash, j + 1)

\* the loop of disconnectBlock without view.spend
RECURSIVE UnspendTXs_KeepOutputs(_, _, _, _)
UnspendTXs_KeepOutputs(view, txs, i, height) ==
  IF i < 1 THEN view
  ELSE UnspendTXs_KeepOutputs(ViewAddTX(view, txs[i], height), txs, i - 1, height)

RECURSIVE UnspendTXs(_, _, _, _)
UnspendTXs(view, txs, i, height) ==
  IF i < 1 THEN view
  ELSE UnspendTXs(SpendOutputs(ViewAddTX(view, txs[i], height), txs[i], 1),
                  txs, i - 1, height)

DisconnectBlock(S, hash, batch) ==
  LET view == UnspendTXs(GetUndoView(S, hash), BLOCKS[hash].txs,
                         Len(BLOCKS[hash].txs), ChainGetHeight(S, hash))
      w == WriteView(view, SeqOfSet(DOMAIN view), S.coinCache, batch)
  IN [ S     |-> [S EXCEPT !.coinCache = w.coinCache],
       batch |-> Append(w.batch, BatchDel("u", hash)) ]

\* disconnect(entry) that leaves the height index and its cache alone
DisconnectHead_KeepHeight(S, entry) ==
  [ S     |-> S,
    batch |-> <<BatchDel("n", entry.prevBlock),
                BatchPut("R", "R", entry.prevBlock)>> ]

\* disconnect(entry): its first lines, before getBlock
DisconnectHead(S, entry) ==
  [ S     |-> [S EXCEPT !.cacheHeight = Del(@, entry.height)],
    batch |-> <<BatchDel("n", entry.prevBlock),
                BatchDel("H", entry.height),
                BatchPut("R", "R", entry.prevBlock)>> ]

\* disconnect(entry) up to its batch.write, for a block whose body is stored
Disconnect(S, entry) ==
  LET d == DisconnectHead(S, entry)
  IN DisconnectBlock(d.S, entry.hash, d.batch)

-----------------------------------------------------------------------------
(* Chain: the caller of ChainDB.  Block connection and reorganization.      *)

RECURSIVE SumValues(_, _)
SumValues(xs, i) == IF i > Len(xs) THEN 0 ELSE xs[i].value + SumValues(xs, i + 1)

\* connect: fill every transaction's inputs from the view, check them, then
\* add the transaction's outputs to the view
RECURSIVE VerifyTXs(_, _, _, _, _)
VerifyTXs(view, txs, i, height, filled) ==
  IF i > Len(txs) THEN [ok |-> TRUE, view |-> view, coins |-> filled]
  ELSE IF IsCoinbase(TXS[txs[i]])
  THEN VerifyTXs(ViewAddTX(view, txs[i], height), txs, i + 1, height, filled)
  ELSE LET r == ViewFillCoins(view, TXS[txs[i]].inputs, 1, <<>>)
       IN IF ~r.ok \/ SumValues(r.coins, 1) < SumValues(TXS[txs[i]].outputs, 1)
          THEN [ok |-> FALSE, view |-> r.view, coins |-> filled]
          ELSE VerifyTXs(ViewAddTX(r.view, txs[i], height), txs, i + 1, height,
                         filled \o r.coins)

VerifyBlock(S, hash, height) ==
  VerifyTXs(GetCoinView(S, hash), BLOCKS[hash].txs, 1, height, <<>>)

\* the contextual check of the header's target
VerifyContext(hash) == BLOCKS[hash].bits > 0 /\ BLOCKS[hash].bits <= PowLimit

\* the hashes from an entry back to (and without) the entry at height floor
RECURSIVE Branch(_, _, _)
Branch(S, hash, floor) ==
  LET e == GetEntryByHash(S, hash)
  IN IF e = Null \/ e.height <= floor THEN <<>>
     ELSE <<hash>> \o Branch(S, e.prevBlock, floor)

RECURSIVE AncestorAt(_, _, _)
AncestorAt(S, hash, height) ==
  LET e == GetEntryByHash(S, hash)
  IN IF e = Null THEN NoHash
     ELSE IF e.height <= height THEN hash
     ELSE AncestorAt(S, e.prevBlock, height)

\* the common ancestor of two stored entries
RECURSIVE FindFork(_, _, _)
FindFork(S, a, b) ==
  IF a = b THEN a
  ELSE LET ea == GetEntryByHash(S, a)
           eb == GetEntryByHash(S, b)
       IN IF ea.height > eb.height THEN FindFork(S, ea.prevBlock, b)
          ELSE IF eb.height > ea.height THEN FindFork(S, a, eb.prevBlock)
          ELSE FindFork(S, ea.prevBlock, eb.prevBlock)

Reverse(xs) == [i \in 1..Len(xs) |-> xs[Len(xs) + 1 - i]]

Step(op, hash, old) == [op |-> op, hash |-> hash, old |-> old]

\* reorganize(to): disconnect the tip's branch down to the fork, reconnect the
\* stored blocks of the new branch, then connect the new block
Reorganize(S, chainTip, hash) ==
  LET prev == BLOCKS[hash].prevBlock
      fork == FindFork(S, chainTip, prev)
      fh   == GetEntryByHash(S, fork).height
      dis  == Branch(S, chainTip, fh)
      con  == Reverse(Branch(S, prev, fh))
  IN [i \in 1..Len(dis) |-> Step("disconnect", dis[i], NoHash)]
     \o [i \in 1..Len(con) |-> Step("reconnect", con[i], NoHash)]
     \o <<Step("connect", hash, chainTip)>>

State == [options |-> options, db |-> db, cacheHash |-> cacheHash,
          cacheHeight |-> cacheHeight, coinCache |-> coinCache]

Called(op, hash, err) == [op |-> op, hash |-> hash, err |-> err]

\* the ChainDB call ended without error: the batch is on disk
Commit(r, newTip, called) ==
  /\ db' = BatchWrite(r.S.db, r.batch)
  /\ cacheHash' = r.S.cacheHash
  /\ cacheHeight' = r.S.cacheHeight
  /\ coinCache' = r.S.coinCache
  /\ tip' = newTip
  /\ job' = Tail(job)
  /\ last' = called
  /\ UNCHANGED <<options, mp, done, calls, walletVars, unitVars>>

\* the call was not made, or ended in an error: the rest of the work is dropped
Abort(S, called) ==
  /\ db' = S.db
  /\ cacheHash' = S.cacheHash
  /\ cacheHeight' = S.cacheHeight
  /\ coinCache' = S.coinCache
  /\ job' = <<>>
  /\ last' = called
  /\ UNCHANGED <<options, tip, reorgs, mp, done, calls, walletVars, unitVars>>

\* a store error is escalated to the process: the chain takes no more blocks
StoreErrors == {"read", "write"}

\* Chain.add up to the choice of the branch
Add(b) ==
  /\ job = <<>>
  /\ last.err \notin StoreErrors
  /\ ~ChainHas(State, b)
  /\ ChainHas(State, BLOCKS[b].prevBlock)
  /\ IF ~VerifyContext(b)
     THEN /\ last' = Called("add", b, "invalid")
          /\ UNCHANGED <<options, db, cacheHash, cacheHeight, coinCache, tip, job, reorgs, mp, done, calls, walletVars, unitVars>>
     ELSE LET prev  == GetEntryByHash(State, BLOCKS[b].prevBlock)
              entry == EntryFromBlock(b, prev)
          IN /\ job' = IF entry.chainwork > GetEntryByHash(State, tip).chainwork
                       THEN IF prev.hash = tip
                            THEN <<Step("connect", b, NoHash)>>
                            ELSE Reorganize(State, tip, b)
                       ELSE <<Step("save", b, NoHash)>>
             /\ last' = Called("add", b, "none")
             /\ UNCHANGED <<options, db, cacheHash, cacheHeight, coinCache, tip, reorgs, mp, done, calls, walletVars, unitVars>>

\* a block that does not win: ChainDB.save(entry, block, null, false)
SaveSide ==
  /\ job # <<>> /\ Head(job).op = "save"
  /\ LET hash  == Head(job).hash
         entry == EntryFromBlock(hash, GetEntryByHash(State, BLOCKS[hash].prevBlock))
     IN Commit(Save(State, entry, EmptyMap, <<>>, FALSE), tip, Called("save", hash, "none"))
  /\ UNCHANGED reorgs

\* connect: verify, then ChainDB.save(entry, block, view, true)
Connect ==
  /\ job # <<>> /\ Head(job).op = "connect"
  /\ LET hash  == Head(job).hash
         entry == EntryFromBlock(hash, GetEntryByHash(State, BLOCKS[hash].prevBlock))
         v     == VerifyBlock(State, hash, entry.height)
     IN IF ~v.ok
        THEN Abort(State, Called("connect", hash, "verify"))
        ELSE /\ Commit(Save(State, entry, v.view, v.coins, TRUE), hash,
                       Called("connect", hash, "none"))
             /\ reorgs' = IF Head(job).old = NoHash THEN reorgs
                          ELSE Append(reorgs, Head(job).old)

\* a stored block of the winning branch: verify, then ChainDB.reconnect
ChainReconnect ==
  /\ job # <<>> /\ Head(job).op = "reconnect"
  /\ LET hash  == Head(job).hash
         entry == GetEntryByHash(State, hash)
         v     == VerifyBlock(State, hash, entry.height)
     IN IF ~v.ok
        THEN Abort(State, Called("reconnect", hash, "verify"))
        ELSE /\ Commit(Reconnect(State, entry, v.view, v.coins), hash,
                       Called("reconnect", hash, "none"))
             /\ UNCHANGED reorgs

\* a block of the losing branch: ChainDB.disconnect(entry)
ChainDisconnect ==
  /\ job # <<>> /\ Head(job).op = "disconnect"
  /\ LET hash  == Head(job).hash
         entry == GetEntryByHash(State, hash)
     IN IF ChainGetBlock(State, hash) = NoHash
        THEN Abort(DisconnectHead(State, entry).S, Called("disconnect", hash, "notfound"))
        ELSE /\ Commit(Disconnect(State, entry), entry.prevBlock,
                       Called("disconnect", hash, "none"))
             /\ UNCHANGED reorgs

\* no call holds the mempool's lock
Idle == [op |-> "none", hash |-> NoHash, stage |-> "none", filled |-> {}]

NoCall == [op |-> "none", hash |-> NoHash, res |-> "none"]

Returned(op, hash, res) == [op |-> op, hash |-> hash, res |-> res]

NoCalls == [tx |-> 0, block |-> 0, reset |-> 0]

\* the mempool as its constructor leaves it
EmptyPool ==
  [ tx |-> <<>>, spents |-> EmptyMap, orphans |-> <<>>, coins |-> EmptyMap,
    waiting |-> EmptyMap, size |-> 0, totalTX |-> 0, totalOrphans |-> 0,
    busy |-> FALSE, run |-> Idle, jobs |-> <<>> ]

-----------------------------------------------------------------------------
(* txdb.js: the wallet's transaction database.  Every address is the       *)
(* wallet's own, options.verify is off and the coin cache is read as the   *)
(* store it mirrors.                                                        *)

\* an event handed to emit
Event(name, hash) == [name |-> name, hash |-> hash]

\* the most transactions the wallet is sent
MaxAdds == 4

\* the transactions the wallet is sent
WalletTxs == {"ca1", "ta2", "ty", "tc3", "td3"}

\* block times (0: not in a block) and receive times a transaction object carries
TxTimes == 0..2

TxPs == 1..2

\* the records t, s (outpoint -> spending input), c (coins), d (spent coins by
\* spending input) and o (outpoint -> waiting inputs) of an empty database
EmptyTXDB == [t |-> EmptyMap, s |-> EmptyMap, c |-> {}, d |-> {}, o |-> EmptyMap]

\* bcoin.outpoint.fromTX(tx, i) of an input
Spender(hash, i) == [hash |-> hash, index |-> i]

\* what a call returns: the database, the events it emitted and how it ended
Out(W, ev, res) == [W |-> W, ev |-> ev, res |-> res]

\* _remove(tx, info): the inputs that fillHistory finds a spent coin for give
\* their coin back, the outputs leave the coins
TxdbRemove(W, hash) ==
  LET tx     == TXS[hash]
      filled == IF IsCoinbase(tx) THEN {}
                ELSE {i \in 1..Len(tx.inputs) : Spender(hash, i) \in W.d}
      prevs  == {tx.inputs[i] : i \in filled}
      outs   == {Outpoint(hash, j) : j \in 0..(Len(tx.outputs) - 1)}
  IN Out([ t |-> Del(W.t, hash),
           s |-> [k \in (DOMAIN W.s) \ prevs |-> W.s[k]],
           c |-> (W.c \cup prevs) \ outs,
           d |-> W.d \ {Spender(hash, i) : i \in filled},
           o |-> [k \in (DOMAIN W.o) \ prevs |-> W.o[k]] ],
         <<Event("remove tx", hash)>>, "ok")

\* _removeRecursive(tx): the spenders of every output first, then the transaction
RECURSIVE TxdbRemoveRecursive(_, _, _, _)
TxdbRemoveRecursive(W, hash, j, ev) ==
  IF j >= Len(TXS[hash].outputs)
  THEN LET r == TxdbRemove(W, hash) IN Out(r.W, ev \o r.ev, "ok")
  ELSE LET spent == Get(W.s, Outpoint(hash, j))
       IN IF spent = Null THEN TxdbRemoveRecursive(W, hash, j + 1, ev)
          ELSE IF ~Has(W.t, spent.hash) THEN Out(W, ev, "error")
          ELSE LET r == TxdbRemoveRecursive(W, spent.hash, 0, ev)
               IN IF r.res = "error" THEN r
                  ELSE TxdbRemoveRecursive(r.W, hash, j + 1, r.ev)

\* _removeConflict that keeps a spender received at the same time
TxdbRemoveConflict_Strict(W, hash, ref) ==
  IF ~Has(W.t, hash) THEN Out(W, <<>>, "error")
  ELSE LET tx == W.t[hash]
       IN IF tx.ts # 0 /\ (ref.ts = 0 \/ ref.ts < tx.ts) THEN Out(W, <<>>, "kept")
          ELSE IF tx.ts = 0 /\ (ref.ts # 0 \/ ref.ps <= tx.ps) THEN Out(W, <<>>, "kept")
          ELSE TxdbRemoveRecursive(W, hash, 0, <<>>)

\* _removeConflict(hash, ref): "kept" when the spender stays
TxdbRemoveConflict(W, hash, ref) ==
  IF ~Has(W.t, hash) THEN Out(W, <<>>, "error")
  ELSE LET tx == W.t[hash]
       IN IF tx.ts # 0 /\ (ref.ts = 0 \/ ref.ts < tx.ts) THEN Out(W, <<>>, "kept")
          ELSE IF tx.ts = 0 /\ (ref.ts # 0 \/ ref.ps < tx.ps) THEN Out(W, <<>>, "kept")
          ELSE TxdbRemoveRecursive(W, hash, 0, <<>>)

RECURSIVE TxdbVerify(_, _, _, _, _)

\* _verify, the callback of _removeConflict: r is what _removeConflict returned
\* for the spender spent of input i
TxdbVerifyConflict(W, ref, i, coins, ev, spent, r) ==
  IF r.res = "error"
  THEN [W |-> r.W, ev |-> ev \o r.ev, res |-> "error", coins |-> coins]
  ELSE IF r.res = "kept"
  THEN [W |-> W, ev |-> ev, res |-> "false", coins |-> coins]
  ELSE TxdbVerify(r.W, ref, i + 1, coins \cup {i},
                  ev \o r.ev \o <<Event("conflict", spent.hash)>>)

\* _verify(tx, info): coins is the set of inputs that have input.coin
TxdbVerify(W, ref, i, coins, ev) ==
  LET tx == TXS[ref.hash]
  IN IF i > Len(tx.inputs) \/ IsCoinbase(tx)
     THEN [W |-> W, ev |-> ev, res |-> "ok", coins |-> coins]
     ELSE LET prevout == tx.inputs[i]
              spent   == Get(W.s, prevout)
          IN IF prevout \in W.c
             THEN TxdbVerify(W, ref, i + 1, coins \cup {i}, ev)
             ELSE IF spent = Null THEN TxdbVerify(W, ref, i + 1, coins, ev)
             ELSE IF spent \notin W.d
             THEN [W |-> W, ev |-> ev, res |-> "error", coins |-> coins]
             ELSE TxdbVerifyConflict(W, ref, i, coins, ev, spent,
                                     TxdbRemoveConflict(W, spent.hash, ref))

\* _confirm(tx, info): "add" when the transaction is new
TxdbConfirm(W, ref) ==
  IF ~Has(W.t, ref.hash) THEN Out(W, <<>>, "add")
  ELSE IF W.t[ref.hash].ts # 0 \/ ref.ts = 0 THEN Out(W, <<>>, "ignored")
  ELSE Out([W EXCEPT !.t = Put(@, ref.hash, [ts |-> ref.ts, ps |-> W.t[ref.hash].ps])],
           <<Event("tx", ref.hash), Event("confirmed", ref.hash)>>, "confirmed")

\* the loop of add over the inputs: the spender record, then the orphan list or
\* the coin
RECURSIVE TxdbSpend(_, _, _, _)
TxdbSpend(W, hash, i, coins) ==
  LET tx == TXS[hash]
  IN IF i > Len(tx.inputs) \/ IsCoinbase(tx) THEN W
     ELSE LET prevout == tx.inputs[i]
              W1 == [W EXCEPT !.s = Put(@, prevout, Spender(hash, i))]
          IN TxdbSpend(IF i \notin coins
                       THEN [W1 EXCEPT !.o = Put(@, prevout,
                                                Append(IF Has(W.o, prevout) THEN W.o[prevout]
                                                       ELSE <<>>,
                                                       Spender(hash, i)))]
                       ELSE [W1 EXCEPT !.c = @ \ {prevout},
                                       !.d = @ \cup {Spender(hash, i)}],
                       hash, i + 1, coins)

\* _resolveOrphans(tx, index): the first waiting input whose transaction is
\* stored takes the coin
TxdbResolveOrphans(W, S, hash, j) ==
  LET key == Outpoint(hash, j)
  IN IF ~Has(S.o, key) THEN [W |-> W, resolved |-> FALSE]
     ELSE LET W1   == [W EXCEPT !.o = [k \in (DOMAIN W.o) \ {key} |-> W.o[k]]]
              live == {n \in 1..Len(S.o[key]) : Has(S.t, S.o[key][n].hash)}
          IN IF live = {} THEN [W |-> W1, resolved |-> FALSE]
             ELSE LET n == CHOOSE n \in live : \A m \in live : n <= m
                  IN [W |-> [W1 EXCEPT !.d = @ \cup {S.o[key][n]}], resolved |-> TRUE]

\* the loop of add over the outputs; S is the store the reads see, W the batch
RECURSIVE TxdbOutputs(_, _, _, _)
TxdbOutputs(W, S, hash, j) ==
  IF j >= Len(TXS[hash].outputs) THEN W
  ELSE LET r == TxdbResolveOrphans(W, S, hash, j)
       IN TxdbOutputs(IF r.resolved THEN r.W
                      ELSE [r.W EXCEPT !.c = @ \cup {Outpoint(hash, j)}],
                      S, hash, j + 1)

\* add, the callback of _verify: v is what _verify returned
TxdbAddVerified(ref, v) ==
  IF v.res # "ok" THEN Out(v.W, v.ev, v.res)
  ELSE Out(TxdbOutputs(TxdbSpend([v.W EXCEPT !.t = Put(@, ref.hash,
                                                      [ts |-> ref.ts, ps |-> ref.ps])],
                                 ref.hash, 1, v.coins),
                       v.W, ref.hash, 0),
           v.ev \o <<Event("tx", ref.hash)>>
                \o (IF ref.ts # 0 THEN <<Event("confirmed", ref.hash)>> ELSE <<>>),
           "added")

\* add, the callback of _confirm: c is what _confirm returned
TxdbAddConfirmed(W, ref, c) ==
  IF c.res # "add" THEN c
  ELSE TxdbAddVerified(ref, TxdbVerify(W, ref, 1, {}, <<>>))

\* add(tx, info)
TxdbAdd(W, ref) == TxdbAddConfirmed(W, ref, TxdbConfirm(W, ref))

NoAdd == [n |-> 0, hash |-> NoHash, ts |-> 0, ps |-> 0, res |-> "none", ev |-> <<>>]

-----------------------------------------------------------------------------

\* the options of a ChainDB that keeps every block
\* no function has been called on its own
NoUnit == [fn |-> "none"]

NoPrune == [prune |-> FALSE, keepBlocks |-> KeepBlocks]

EmptyDB ==
  [R |-> NoHash, e |-> EmptyMap, h |-> EmptyMap, H |-> EmptyMap, n |-> EmptyMap,
   b |-> EmptyMap, c |-> EmptyMap, u |-> EmptyMap, q |-> EmptyMap]

\* open(): the genesis block is saved and connected
Genesis ==
  LET r == Save([options |-> NoPrune, db |-> EmptyDB, cacheHash |-> EmptyMap,
                 cacheHeight |-> EmptyMap, coinCache |-> EmptyMap],
                EntryFromBlock(GENESIS, Null), EmptyMap, <<>>, TRUE)
  IN [r.S EXCEPT !.db = BatchWrite(r.S.db, r.batch)]

Init ==
  /\ options = NoPrune
  /\ db = Genesis.db
  /\ cacheHash = Genesis.cacheHash
  /\ cacheHeight = Genesis.cacheHeight
  /\ coinCache = Genesis.coinCache
  /\ tip = GENESIS
  /\ job = <<>>
  /\ last = Called("open", GENESIS, "none")
  /\ reorgs = <<>>
  /\ mp = EmptyPool
  /\ done = NoCall
  /\ calls = NoCalls
  /\ txdb = EmptyTXDB
  /\ wdone = NoAdd
  /\ unit = NoUnit

Next ==
  \/ \E b \in BlockHashes : Add(b)
  \/ SaveSide
  \/ Connect
  \/ ChainReconnect
  \/ ChainDisconnect

Spec == Init /\ [][Next]_vars

\* the chain database constructed with options.prune
InitPrune ==
  /\ options = [prune |-> TRUE, keepBlocks |-> KeepBlocks]
  /\ db = Genesis.db
  /\ cacheHash = Genesis.cacheHash
  /\ cacheHeight = Genesis.cacheHeight
  /\ coinCache = Genesis.coinCache
  /\ tip = GENESIS
  /\ job = <<>>
  /\ last = Called("open", GENESIS, "none")
  /\ reorgs = <<>>
  /\ mp = EmptyPool
  /\ done = NoCall
  /\ calls = NoCalls
  /\ txdb = EmptyTXDB
  /\ wdone = NoAdd
  /\ unit = NoUnit

SpecPrune == InitPrune /\ [][Next]_vars

-----------------------------------------------------------------------------
(* The chain database with a store that can fail *)

\* save or reconnect whose batch.write ends in an error
ConnectFail ==
  /\ job # <<>> /\ Head(job).op \in {"save", "connect", "reconnect"}
  /\ LET hash  == Head(job).hash
         op    == Head(job).op
         entry == IF op = "reconnect" THEN GetEntryByHash(State, hash)
                  ELSE EntryFromBlock(hash, GetEntryByHash(State, BLOCKS[hash].prevBlock))
         v     == VerifyBlock(State, hash, entry.height)
     IN IF op = "save"
        THEN Abort(Save(State, entry, EmptyMap, <<>>, FALSE).S, Called(op, hash, "write"))
        ELSE /\ v.ok
             /\ Abort(IF op = "connect" THEN Save(State, entry, v.view, v.coins, TRUE).S
                      ELSE Reconnect(State, entry, v.view, v.coins).S,
                      Called(op, hash, "write"))

\* disconnect whose getBlock or getUndoView read ends in an error
DisconnectReadFail ==
  /\ job # <<>> /\ Head(job).op = "disconnect"
  /\ Abort(DisconnectHead(State, GetEntryByHash(State, Head(job).hash)).S,
           Called("disconnect", Head(job).hash, "read"))

\* disconnect whose batch.write ends in an error
DisconnectWriteFail ==
  /\ job # <<>> /\ Head(job).op = "disconnect"
  /\ ChainGetBlock(State, Head(job).hash) # NoHash
  /\ Abort(Disconnect(State, GetEntryByHash(State, Head(job).hash)).S,
           Called("disconnect", Head(job).hash, "write"))

NextFault ==
  \/ \E b \in BlockHashes : Add(b)
  \/ SaveSide
  \/ Connect
  \/ ChainReconnect
  \/ ChainDisconnect
  \/ ConnectFail
  \/ DisconnectReadFail
  \/ DisconnectWriteFail

SpecFault == Init /\ [][NextFault]_vars

-----------------------------------------------------------------------------
(* What the chain database answers *)

Heights == 0..Cardinality(BlockHashes)

Reads(S, chainTip) ==
  [ byHash   |-> [x \in BlockHashes |-> GetEntryByHash(S, x)],
    byHeight |-> [h \in Heights |-> GetEntryByHeight(S, h)],
    tip      |-> ChainGetTip(S),
    main     |-> [x \in BlockHashes |-> IsMainChain(S, chainTip, x)],
    coins    |-> [x \in TxHashes |-> ChainGetCoins(S, x)] ]

TipEntry == GetEntryByHash(State, tip)

\* the hashes that isMainChain accepts at a height
MainChainAt(h) ==
  {x \in BlockHashes : ChainGetHeight(State, x) = h /\ IsMainChain(State, tip, x)}

\* the main chain from the block after genesis up to the tip
MainBranch == Reverse(Branch(State, tip, 0))

\* the state of a chain database after connecting the blocks alone, in order
RECURSIVE ConnectAlone(_, _, _)
ConnectAlone(S, hashes, i) ==
  IF i > Len(hashes) THEN S
  ELSE LET entry == EntryFromBlock(hashes[i], GetEntryByHash(S, BLOCKS[hashes[i]].prevBlock))
           v == VerifyBlock(S, hashes[i], entry.height)
           r == Save(S, entry, v.view, v.coins, TRUE)
       IN ConnectAlone([r.S EXCEPT !.db = BatchWrite(r.S.db, r.batch)], hashes, i + 1)

\* the unspent outputs a chain database state holds
Utxo(S) ==
  {o \in {Outpoint(x, i) : x \in TxHashes, i \in 0..1} : ChainGetCoin(S, o.hash, o.index) # Null}

-----------------------------------------------------------------------------
(* Properties of the chain database *)

\* C2: whenever every connected block has been disconnected again, last one
\* first, so that the tip is back at genesis, the stored coins (the c records
\* and the bytes of each) are those of the state right after genesis
C2_ConnectDisconnect == tip = GENESIS => db.c = Genesis.db.c

\* A1 and A2 (which spends an output of A1) were connected and are both
\* disconnected again, A1 last
C2_Witness ==
  /\ tip = GENESIS
  /\ last = Called("disconnect", "A1", "none")
  /\ Has(db.e, "A2")

\* C3: at every height up to the tip exactly one hash satisfies isMainChain,
\* and the height index and the next pointers agree: n[H[h-1]] = H[h]
C3_MainChainUnique ==
  \A h \in 0..TipEntry.height :
    /\ Cardinality(MainChainAt(h)) = 1
    /\ h >= 1 => /\ Has(db.H, h - 1) /\ Has(db.H, h)
                 /\ GetHash(db.n, db.H[h - 1]) = db.H[h]

\* a reorganization has completed and left a stored side branch behind
C3_Witness ==
  /\ job = <<>>
  /\ Len(reorgs) >= 1
  /\ TipEntry.height >= 2
  /\ \E x \in BlockHashes : ChainHas(State, x) /\ ~IsMainChain(State, tip, x)

\* the chain has left a branch and come back to it: the tip that an earlier
\* reorganization left behind is on the main chain again
BackOnBranch ==
  /\ job = <<>>
  /\ last.err = "none"
  /\ \E i \in 1..Len(reorgs) : \E j \in (i + 1)..Len(reorgs) :
       /\ IsMainChain(State, tip, reorgs[i])
       /\ ~IsMainChain(State, tip, reorgs[j])

\* C4: after connecting a branch, reorganizing to another and reorganizing
\* back, the tip and the stored coins are those of connecting the branch alone
C4_ReorgBack ==
  BackOnBranch =>
    LET alone == ConnectAlone(Genesis, MainBranch, 1)
    IN /\ db.R = alone.db.R
       /\ tip = alone.db.R
       /\ db.c = alone.db.c
       /\ Utxo(State) = Utxo(alone)

\* the chain went from A3 to Y, which forks off at A1 and spends an output
\* that A2 spends too, and back to the A branch with A4
C4_Witness ==
  /\ BackOnBranch
  /\ tip = "A4"
  /\ \E i \in 1..Len(reorgs) : reorgs[i] = "Y"
  /\ \E i \in 1..Len(reorgs) : reorgs[i] = "A3"

\* a save or reconnect that connects a block has just ended without error
Connected == last'.op \in {"connect", "reconnect"} /\ last'.err = "none"

\* the transaction at position k of the block is followed, in the same block,
\* by a transaction that spends its output j
SpentInBlock(hash, k, j) ==
  \E m \in (k + 1)..Len(BLOCKS[hash].txs) :
    \E n \in 1..Len(TXS[BLOCKS[hash].txs[m]].inputs) :
      TXS[BLOCKS[hash].txs[m]].inputs[n] = Outpoint(BLOCKS[hash].txs[k], j)

\* the input refers to an output of a transaction placed before position k
MadeInBlock(hash, k, in) ==
  \E m \in 1..(k - 1) :
    /\ BLOCKS[hash].txs[m] = in.hash
    /\ in.index < Len(TXS[in.hash].outputs)

\* C9 as stated: when a block is connected, every input of its non-coinbase
\* transactions is an unspent slot of a stored Coins record before the
\* connection and a spent one after it, and every spendable output of every
\* transaction of the block is in the UTXO set after it
C9_Original ==
  [][Connected =>
      LET txs == BLOCKS[last'.hash].txs
      IN \A k \in 1..Len(txs) :
           /\ ~IsCoinbase(TXS[txs[k]]) =>
                \A n \in 1..Len(TXS[txs[k]].inputs) :
                  LET in == TXS[txs[k]].inputs[n]
                  IN /\ ChainGetCoin(State, in.hash, in.index) # Null
                     /\ ChainGetCoin(State', in.hash, in.index) = Null
           /\ \A j \in 1..Len(TXS[txs[k]].outputs) :
                ~IsUnspendable(TXS[txs[k]].outputs[j].script) =>
                  ChainGetCoin(State', txs[k], j - 1) # Null]_vars

\* C9 amended: an input may also be an output of an earlier transaction of the
\* same block, and an output that a later transaction of the block spends is
\* not in the UTXO set after the connection
C9_ConnectSpends ==
  [][Connected =>
      LET txs == BLOCKS[last'.hash].txs
      IN \A k \in 1..Len(txs) :
           /\ ~IsCoinbase(TXS[txs[k]]) =>
                \A n \in 1..Len(TXS[txs[k]].inputs) :
                  LET in == TXS[txs[k]].inputs[n]
                  IN /\ \/ ChainGetCoin(State, in.hash, in.index) # Null
                        \/ MadeInBlock(last'.hash, k, in)
                     /\ ChainGetCoin(State', in.hash, in.index) = Null
           /\ \A j \in 1..Len(TXS[txs[k]].outputs) :
                ~IsUnspendable(TXS[txs[k]].outputs[j].script) =>
                  (ChainGetCoin(State', txs[k], j - 1) # Null
                     <=> ~SpentInBlock(last'.hash, k, j - 1))]_vars

\* A3, whose last transaction spends an output of the one before it and an
\* output of A2, has been reconnected after a reorganization
C9_Witness ==
  /\ last = Called("reconnect", "A3", "none")
  /\ ChainGetCoin(State, "ta3", 0) # Null
  /\ ChainGetCoin(State, "ta3", 1) = Null
  /\ ChainGetCoin(State, "ta2", 0) = Null

\* the entries of the main chain, by isMainChain
MainEntries == {db.e[x] : x \in {y \in DOMAIN db.e : IsMainChain(State, tip, y)}}

\* chainwork grows with the height along the main chain
ChainworkGrows ==
  \A a \in MainEntries : \A b \in MainEntries :
    a.height < b.height => a.chainwork < b.chainwork

\* C10 as stated: between block additions, chainwork grows with the height
\* along the main chain and no stored entry has more chainwork than the tip
C10_Original ==
  job = <<>> =>
    /\ ChainworkGrows
    /\ \A x \in DOMAIN db.e : db.e[x].chainwork <= TipEntry.chainwork

\* C8 as stated: a save, reconnect or disconnect that ends in an error leaves
\* every answer of the chain database as it was before the call
C8_Original ==
  [][(last'.op # "add" /\ last'.err # "none") =>
       Reads(State', tip') = Reads(State, tip)]_vars

\* the step ends the work of a block that won against the tip from a side
\* branch: the last step of such a job connects the block and names the old
\* tip, which is not an ancestor of the block
EndsReorg ==
  /\ job # <<>> /\ job[Len(job)].old # NoHash /\ job' = <<>>
  /\ AncestorAt(State, BLOCKS[job[Len(job)].hash].prevBlock,
                GetEntryByHash(State, job[Len(job)].old).height) # job[Len(job)].old

\* the reorganization event is emitted for the old tip, the tip is the block,
\* its chainwork is above the old tip's and the old tip is off the main chain
Reorganized(hash, old) ==
  /\ reorgs' = Append(reorgs, old)
  /\ tip' = hash
  /\ GetEntryByHash(State', hash) # Null
  /\ GetEntryByHash(State', hash).chainwork > GetEntryByHash(State', old).chainwork
  /\ ~IsMainChain(State', tip', old)

SavesEqual ==
  /\ job # <<>> /\ Head(job).op = "save"
  /\ last'.op = "save" /\ last'.err = "none"
  /\ GetEntryByHash(State', Head(job).hash) # Null
  /\ GetEntryByHash(State', Head(job).hash).chainwork = TipEntry.chainwork

OnSideChainOnly(in) ==
  /\ ChainGetCoin(State, in.hash, in.index) = Null
  /\ \E x \in BlockHashes :
       /\ InSeq(BLOCKS[x].txs, in.hash)
       /\ ChainHas(State, x)
       /\ ~IsMainChain(State, tip, x)

\* the block has a transaction that spends an output found only on a side chain
SpendsSideChain(hash) ==
  \E k \in 1..Len(BLOCKS[hash].txs) :
    /\ ~IsCoinbase(TXS[BLOCKS[hash].txs[k]])
    /\ \E n \in 1..Len(TXS[BLOCKS[hash].txs[k]].inputs) :
         OnSideChainOnly(TXS[BLOCKS[hash].txs[k]].inputs[n])

\* the tip at the time the block of the running job was handed to the chain
TipBefore == IF job[Len(job)].old # NoHash THEN job[Len(job)].old ELSE tip

-----------------------------------------------------------------------------
(* mempool.js.  A mempool state is the record                               *)
(* [tx, spents, orphans, coins, waiting, size, totalOrphans, busy, run,     *)
(*  jobs]: tx and orphans list the keys of this.tx and this.orphans in the  *)
(* order of insertion, coins holds the inputs of each orphan that have      *)
(* their coin, and busy, run and jobs are the lock.                         *)

\* options.maxSize
MaxSize == 800

\* constants.mempool.MAX_ORPHAN_TX, scaled down
MAX_ORPHAN_TX == 2

\* the queued calls the lock is let to hold
MaxJobs == 2

\* the addTX calls a behaviour is let to make
MaxCalls == 3

\* the blocks a behaviour lets the chain connect or disconnect beside the pool
MaxBlockEvents == 3

Without(xs, x) == SelectSeq(xs, LAMBDA y : y # x)

\* memUsage(tx) with every input's coin filled; scripts and witnesses count
\* as empty
MemUsage(hash) ==
  8 + Len(TXS[hash].inputs) * (93 + 76) + Len(TXS[hash].outputs) * 8 + 8 + 40 + 64 + 64

PoolHasTX(M, hash) == InSeq(M.tx, hash)

HasOrphan(M, hash) == InSeq(M.orphans, hash)

\* isSpent: the spending entry, if any
IsSpent(M, hash, index) == GetHash(M.spents, Outpoint(hash, index))

\* Locker.hasPending: an addTX of the transaction waits for the lock
HasPending(M, hash) ==
  \E i \in 1..Len(M.jobs) : M.jobs[i].op = "addTX" /\ M.jobs[i].hash = hash

PoolHas(M, hash) == HasPending(M, hash) \/ HasOrphan(M, hash) \/ PoolHasTX(M, hash)

\* getCoin: an output of a pooled transaction that no pooled transaction spends
PoolGetCoin(M, hash, index) ==
  /\ PoolHasTX(M, hash)
  /\ IsSpent(M, hash, index) = NoHash
  /\ index < Len(TXS[hash].outputs)

IsDoubleSpend(M, hash) ==
  \E i \in 1..Len(TXS[hash].inputs) :
    IsSpent(M, TXS[hash].inputs[i].hash, TXS[hash].inputs[i].index) # NoHash

\* Mempool.fillCoins: the inputs that have a coin afterwards
PoolFillCoins(M, hash, filled) ==
  filled \cup {i \in 1..Len(TXS[hash].inputs) :
                 PoolGetCoin(M, TXS[hash].inputs[i].hash, TXS[hash].inputs[i].index)}

\* the loop of fillAllCoins over the chain database
ChainFillCoins(M, S, hash, filled) ==
  filled \cup {i \in 1..Len(TXS[hash].inputs) :
                 /\ IsSpent(M, TXS[hash].inputs[i].hash, TXS[hash].inputs[i].index) = NoHash
                 /\ ChainGetCoin(S, TXS[hash].inputs[i].hash, TXS[hash].inputs[i].index) # Null}

TXHasCoins(hash, filled) == filled = 1..Len(TXS[hash].inputs)

\* chain.db.hasCoins
ChainHasCoins(S, hash) == Has(S.db.c, hash)

\* verify: of its checks, check_inputs' value-in >= value-out
VerifyOK(hash) ==
  SumValues([i \in 1..Len(TXS[hash].inputs) |->
               TXS[TXS[hash].inputs[i].hash].outputs[TXS[hash].inputs[i].index + 1]], 1)
    >= SumValues(TXS[hash].outputs, 1)

\* tx.getPrevout: the distinct hashes the inputs refer to
TXPrevout(hash) == {TXS[hash].inputs[i].hash : i \in 1..Len(TXS[hash].inputs)}

RECURSIVE DropWaiting(_, _, _)
DropWaiting(waiting, prevs, hash) ==
  IF prevs = <<>> THEN waiting
  ELSE LET prev == Head(prevs)
       IN IF ~Has(waiting, prev) THEN DropWaiting(waiting, Tail(prevs), hash)
          ELSE LET hashes == Without(waiting[prev], hash)
               IN DropWaiting(IF hashes = <<>> THEN Del(waiting, prev)
                              ELSE Put(waiting, prev, hashes),
                              Tail(prevs), hash)

\* removeOrphan(tx) with a transaction
RemoveOrphanTX(M, hash) ==
  [M EXCEPT !.waiting = DropWaiting(@, SeqOfSet(TXPrevout(hash)), hash),
            !.orphans = Without(@, hash),
            !.coins = Del(@, hash),
            !.totalOrphans = @ - 1]

\* removeOrphan(hash) with a hash: nothing happens unless it is an orphan's
RemoveOrphan(M, hash) == IF HasOrphan(M, hash) THEN RemoveOrphanTX(M, hash) ELSE M

\* limitOrphans, with the victim that ec.rand picks
LimitOrphans(M, victim) ==
  IF M.totalOrphans > MAX_ORPHAN_TX THEN RemoveOrphan(M, victim) ELSE M

RECURSIVE AddWaiting(_, _, _)
AddWaiting(waiting, prevs, hash) ==
  IF prevs = <<>> THEN waiting
  ELSE AddWaiting(Put(waiting, Head(prevs),
                      Append(IF Has(waiting, Head(prevs)) THEN waiting[Head(prevs)] ELSE <<>>,
                             hash)),
                  Tail(prevs), hash)

\* storeOrphan that does not enter the orphan into the waiting lists
StoreOrphan_NoWaiting(M, hash, filled, victim) ==
  LimitOrphans([M EXCEPT !.orphans = Append(@, hash),
                         !.coins = Put(@, hash, filled),
                         !.totalOrphans = @ + 1],
               victim)

StoreOrphan(M, hash, filled, victim) ==
  LET missing == {TXS[hash].inputs[i].hash : i \in (1..Len(TXS[hash].inputs)) \ filled}
  IN LimitOrphans([M EXCEPT !.waiting = AddWaiting(@, SeqOfSet(missing), hash),
                            !.orphans = Append(@, hash),
                            !.coins = Put(@, hash, filled),
                            !.totalOrphans = @ + 1],
                  victim)

RECURSIVE PutSpents(_, _, _, _)
PutSpents(spents, inputs, i, hash) ==
  IF i > Len(inputs) THEN spents
  ELSE PutSpents(Put(spents, inputs[i], hash), inputs, i + 1, hash)

RECURSIVE DelSpents(_, _, _)
DelSpents(spents, inputs, i) ==
  IF i > Len(inputs) THEN spents
  ELSE DelSpents(Del(spents, inputs[i]), inputs, i + 1)

PoolAddEntry(M, hash) ==
  [M EXCEPT !.tx = IF InSeq(@, hash) THEN @ ELSE Append(@, hash),
            !.spents = PutSpents(@, TXS[hash].inputs, 1, hash)]

PoolRemoveEntry(M, hash) ==
  [M EXCEPT !.tx = Without(@, hash),
            !.spents = DelSpents(@, TXS[hash].inputs, 1)]

\* the inputs of the orphan that tx.fillCoins(parent) fills
FillFrom(orphan, parent) ==
  {i \in 1..Len(TXS[orphan].inputs) :
     /\ TXS[orphan].inputs[i].hash = parent
     /\ TXS[orphan].inputs[i].index < Len(TXS[parent].outputs)}

RECURSIVE ResolveLoop(_, _, _, _)
ResolveLoop(M, hashes, hash, resolved) ==
  IF hashes = <<>> THEN [M |-> [M EXCEPT !.waiting = Del(@, hash)], resolved |-> resolved]
  ELSE LET orphan == Head(hashes)
       IN IF ~HasOrphan(M, orphan) THEN ResolveLoop(M, Tail(hashes), hash, resolved)
          ELSE LET filled == M.coins[orphan] \cup FillFrom(orphan, hash)
               IN IF TXHasCoins(orphan, filled)
                  THEN ResolveLoop([M EXCEPT !.totalOrphans = @ - 1,
                                             !.orphans = Without(@, orphan),
                                             !.coins = Del(@, orphan)],
                                   Tail(hashes), hash, Append(resolved, orphan))
                  ELSE ResolveLoop([M EXCEPT !.coins = Put(@, orphan, filled)],
                                   Tail(hashes), hash, resolved)

ResolveOrphans(M, hash) ==
  IF ~Has(M.waiting, hash) THEN [M |-> M, resolved |-> <<>>]
  ELSE ResolveLoop(M, M.waiting[hash], hash, <<>>)

RECURSIVE AddUnchecked(_, _)
RECURSIVE AddResolved(_, _)
\* addUnchecked(entry): insert, then verify and insert the orphans it resolves
AddUnchecked(M, hash) ==
  LET r == ResolveOrphans([PoolAddEntry(M, hash) EXCEPT !.size = @ + MemUsage(hash),
                                                        !.totalTX = @ + 1], hash)
  IN AddResolved(r.M, r.resolved)

AddResolved(M, resolved) ==
  IF resolved = <<>> THEN M
  ELSE AddResolved(IF VerifyOK(Head(resolved)) THEN AddUnchecked(M, Head(resolved)) ELSE M,
                   Tail(resolved))

RECURSIVE RemoveUnchecked(_, _, _)
RECURSIVE RemoveSpenders(_, _, _)
\* removeUnchecked(entry, limit)
RemoveUnchecked(M, hash, limit) ==
  LET M1 == RemoveOrphanTX(M, hash)
      M2 == IF limit THEN RemoveSpenders(M1, hash, 0) ELSE M1
  IN [PoolRemoveEntry(M2, hash) EXCEPT !.size = @ - MemUsage(hash), !.totalTX = @ - 1]

RemoveSpenders(M, hash, i) ==
  IF i >= Len(TXS[hash].outputs) THEN M
  ELSE LET spender == IsSpent(M, hash, i)
       IN RemoveSpenders(IF spender = NoHash THEN M ELSE RemoveUnchecked(M, spender, TRUE),
                         hash, i + 1)

\* limitMempoolSize: entry.ts grows with the order of insertion, so the pass
\* over the expired entries and the pass over all entries go through the
\* snapshot in one order
RECURSIVE LimitLoop(_, _, _, _, _)
LimitLoop(M, hashes, i, entryHash, trimmed) ==
  IF i > Len(hashes) THEN [M |-> M, trimmed |-> trimmed]
  ELSE IF ~PoolHasTX(M, hashes[i]) THEN LimitLoop(M, hashes, i + 1, entryHash, trimmed)
  ELSE LET M1 == RemoveUnchecked(M, hashes[i], TRUE)
           t1 == trimmed \/ hashes[i] = entryHash
       IN IF M1.size <= MaxSize THEN [M |-> M1, trimmed |-> t1]
          ELSE LimitLoop(M1, hashes, i + 1, entryHash, t1)

LimitMempoolSize(M, entryHash) ==
  IF M.size <= MaxSize THEN [M |-> M, trimmed |-> FALSE]
  ELSE LimitLoop(M, M.tx, 1, entryHash, FALSE)

\* addBlock(block): the block's transactions leave the pool, last one first
RECURSIVE PoolAddBlock(_, _, _)
PoolAddBlock(M, txs, i) ==
  IF i < 1 THEN M
  ELSE PoolAddBlock(IF IsCoinbase(TXS[txs[i]]) THEN M
                    ELSE IF ~PoolHasTX(M, txs[i]) THEN RemoveOrphan(M, txs[i])
                    ELSE RemoveUnchecked(M, txs[i], FALSE),
                    txs, i - 1)

\* removeBlock(block) once it holds the lock
RECURSIVE PoolRemoveBlock(_, _, _)
PoolRemoveBlock(M, txs, i) ==
  IF i > Len(txs) THEN M
  ELSE PoolRemoveBlock(IF IsCoinbase(TXS[txs[i]]) \/ PoolHasTX(M, txs[i]) THEN M
                       ELSE AddUnchecked(M, txs[i]),
                       txs, i + 1)

-----------------------------------------------------------------------------
(* Locker: the mempool's lock and its queue of calls *)

Job(op, hash) == [op |-> op, hash |-> hash]

\* lock(func, args) while the lock is held: the call is queued
Enqueue(M, op, hash) == [M EXCEPT !.jobs = Append(@, Job(op, hash))]

\* addTX once it holds the lock: the checks made before the first wait
StartAddTX(M, hash) ==
  [M EXCEPT !.busy = TRUE,
            !.run = [op |-> "addTX", hash |-> hash,
                     stage |-> IF IsCoinbase(TXS[hash]) THEN "coinbase" ELSE "final",
                     filled |-> {}]]

\* unlock(): the next queued call runs at once
RECURSIVE Unlock(_)
Unlock(M) ==
  LET M1 == [M EXCEPT !.busy = FALSE, !.run = Idle]
  IN IF M1.jobs = <<>> THEN M1
     ELSE LET next == Head(M1.jobs)
              M2   == [M1 EXCEPT !.jobs = Tail(@)]
          IN IF next.op = "addTX" THEN StartAddTX(M2, next.hash)
             ELSE Unlock(PoolRemoveBlock([M2 EXCEPT !.busy = TRUE],
                                         BLOCKS[next.hash].txs, 1))

-----------------------------------------------------------------------------
(* The mempool beside a chain that connects and disconnects blocks *)

\* the transactions that peers send
PoolTxs == {"ta2", "ty", "ta3", "tb3", "tc3", "td3", "ca2"}

\* the block the pool's chain starts at
PoolBase == "A1"

chainOnly == <<options, db, cacheHash, cacheHeight, coinCache, tip, job, last, reorgs>>

\* addTX(tx): takes the lock or is queued
CallAddTX(t) ==
  /\ calls.tx < MaxCalls
  /\ mp.busy => Len(mp.jobs) < MaxJobs
  /\ mp' = IF mp.busy THEN Enqueue(mp, "addTX", t) ELSE StartAddTX(mp, t)
  /\ done' = NoCall
  /\ calls' = [calls EXCEPT !.tx = @ + 1]
  /\ UNCHANGED <<chainOnly, walletVars, unitVars>>

\* a callback of addTX that is not wrapped with unlock
Complete_NoUnlock(M, res) ==
  /\ mp' = M
  /\ done' = Returned("addTX", mp.run.hash, res)

\* the callback of addTX: unlock, then return
Complete(M, res) ==
  /\ mp' = Unlock(M)
  /\ done' = Returned("addTX", mp.run.hash, res)

Wait(stage, filled) ==
  /\ mp' = [mp EXCEPT !.run.stage = stage, !.run.filled = filled]
  /\ done' = NoCall

\* addTX after a check made before the first wait has failed
AddTXReject ==
  /\ mp.run.op = "addTX" /\ mp.run.stage = "coinbase"
  /\ Complete(mp, "coinbase")
  /\ UNCHANGED <<chainOnly, calls, walletVars, unitVars>>

\* addTX after chain.checkFinal
AddTXFinal ==
  /\ mp.run.op = "addTX" /\ mp.run.stage = "final"
  /\ IF PoolHas(mp, mp.run.hash) THEN Complete(mp, "alreadyknown")
     ELSE Wait("hasCoins", {})
  /\ UNCHANGED <<chainOnly, calls, walletVars, unitVars>>

\* addTX after chain.db.hasCoins
AddTXHasCoins ==
  /\ mp.run.op = "addTX" /\ mp.run.stage = "hasCoins"
  /\ LET hash == mp.run.hash
         filled == PoolFillCoins(mp, hash, {})
     IN IF ChainHasCoins(State, hash) THEN Complete(mp, "alreadyknown")
        ELSE IF IsDoubleSpend(mp, hash) THEN Complete(mp, "duplicate")
        ELSE IF TXHasCoins(hash, filled) THEN Wait("verify", filled)
        ELSE Wait("fill", filled)
  /\ UNCHANGED <<chainOnly, calls, walletVars, unitVars>>

\* addTX after the chain database reads of fillAllCoins
AddTXFill ==
  /\ mp.run.op = "addTX" /\ mp.run.stage = "fill"
  /\ LET hash == mp.run.hash
         filled == ChainFillCoins(mp, State, hash, mp.run.filled)
     IN IF TXHasCoins(hash, filled) THEN Wait("verify", filled)
        ELSE \E victim \in {mp.orphans[i] : i \in 1..Len(mp.orphans)} \cup {hash} :
               Complete(StoreOrphan(mp, hash, filled, victim), "orphan")
  /\ UNCHANGED <<chainOnly, calls, walletVars, unitVars>>

\* addTX after verify
AddTXVerify ==
  /\ mp.run.op = "addTX" /\ mp.run.stage = "verify"
  /\ LET hash == mp.run.hash
         r == LimitMempoolSize(AddUnchecked(mp, hash), hash)
     IN IF ~VerifyOK(hash) THEN Complete(mp, "invalid")
        ELSE Complete(r.M, IF r.trimmed THEN "full" ELSE "ok")
  /\ UNCHANGED <<chainOnly, calls, walletVars, unitVars>>

\* the chain connects a block on its tip, and the mempool's addBlock listens
PoolConnect(b) ==
  /\ calls.block < MaxBlockEvents
  /\ calls' = [calls EXCEPT !.block = @ + 1]
  /\ BLOCKS[b].prevBlock = tip
  /\ VerifyContext(b)
  /\ LET stored == GetEntryByHash(State, b)
         entry  == IF stored # Null THEN stored
                   ELSE EntryFromBlock(b, GetEntryByHash(State, BLOCKS[b].prevBlock))
         v      == VerifyBlock(State, b, entry.height)
         r      == IF stored # Null THEN Reconnect(State, entry, v.view, v.coins)
                   ELSE Save(State, entry, v.view, v.coins, TRUE)
     IN /\ v.ok
        /\ db' = BatchWrite(r.S.db, r.batch)
        /\ cacheHash' = r.S.cacheHash
        /\ cacheHeight' = r.S.cacheHeight
        /\ coinCache' = r.S.coinCache
  /\ tip' = b
  /\ mp' = PoolAddBlock(mp, BLOCKS[b].txs, Len(BLOCKS[b].txs))
  /\ done' = Returned("addBlock", b, "ok")
  /\ last' = Called("connect", b, "none")
  /\ UNCHANGED <<options, job, reorgs, walletVars, unitVars>>

\* the chain disconnects its tip, and the mempool's removeBlock listens
PoolDisconnect ==
  /\ calls.block < MaxBlockEvents
  /\ calls' = [calls EXCEPT !.block = @ + 1]
  /\ tip # PoolBase
  /\ mp.busy => Len(mp.jobs) < MaxJobs
  /\ LET r == Disconnect(State, GetEntryByHash(State, tip))
     IN /\ db' = BatchWrite(r.S.db, r.batch)
        /\ cacheHash' = r.S.cacheHash
        /\ cacheHeight' = r.S.cacheHeight
        /\ coinCache' = r.S.coinCache
  /\ tip' = BLOCKS[tip].prevBlock
  /\ mp' = IF mp.busy THEN Enqueue(mp, "removeBlock", tip)
           ELSE Unlock(PoolRemoveBlock([mp EXCEPT !.busy = TRUE], BLOCKS[tip].txs, 1))
  /\ done' = IF mp.busy THEN NoCall ELSE Returned("removeBlock", tip, "ok")
  /\ last' = Called("disconnect", tip, "none")
  /\ UNCHANGED <<options, job, reorgs, walletVars, unitVars>>

PoolChain == ConnectAlone(Genesis, <<PoolBase>>, 1)

InitPool ==
  /\ options = NoPrune
  /\ db = PoolChain.db
  /\ cacheHash = PoolChain.cacheHash
  /\ cacheHeight = PoolChain.cacheHeight
  /\ coinCache = PoolChain.coinCache
  /\ tip = PoolBase
  /\ job = <<>>
  /\ last = Called("connect", PoolBase, "none")
  /\ reorgs = <<>>
  /\ mp = EmptyPool
  /\ done = NoCall
  /\ calls = NoCalls
  /\ txdb = EmptyTXDB
  /\ wdone = NoAdd
  /\ unit = NoUnit

NextPool ==
  \/ \E t \in PoolTxs : CallAddTX(t)
  \/ AddTXReject
  \/ AddTXFinal
  \/ AddTXHasCoins
  \/ AddTXFill
  \/ AddTXVerify
  \/ \E b \in BlockHashes : PoolConnect(b)
  \/ PoolDisconnect

SpecPool == InitPool /\ [][NextPool]_vars

-----------------------------------------------------------------------------
(* The wallet is sent transactions *)

\* the callback of add: r is what add returned
WalletDone(hash, ts, ps, r) ==
  /\ txdb' = r.W
  /\ wdone' = [n |-> wdone.n + 1, hash |-> hash, ts |-> ts, ps |-> ps,
               res |-> r.res, ev |-> r.ev]

\* wallet.add(tx): the lock of the database makes the call one step
WalletAdd(hash, ts, ps) ==
  /\ wdone.n < MaxAdds
  /\ WalletDone(hash, ts, ps, TxdbAdd(txdb, [hash |-> hash, ts |-> ts, ps |-> ps]))
  /\ UNCHANGED <<chainOnly, mp, done, calls, unitVars>>

NextWallet == \E hash \in WalletTxs, ts \in TxTimes, ps \in TxPs : WalletAdd(hash, ts, ps)

SpecWallet == Init /\ [][NextWallet]_vars

-----------------------------------------------------------------------------
(* Properties of the mempool *)

InputsOf(hash) == {TXS[hash].inputs[i] : i \in 1..Len(TXS[hash].inputs)}

PoolEntries == {mp.tx[i] : i \in 1..Len(mp.tx)}

\* C1 as stated: no two distinct entries of the mempool have an input that
\* spends the same outpoint
C1_Original ==
  \A a \in PoolEntries : \A b \in PoolEntries :
    a # b => InputsOf(a) \cap InputsOf(b) = {}

\* C5 as stated: spents has an entry for an outpoint exactly when a
\* transaction of the mempool has an input that spends it, and the entry names
\* that transaction
C5_Original ==
  /\ \A a \in PoolEntries : \A o \in InputsOf(a) :
       Has(mp.spents, o) /\ mp.spents[o] = a
  /\ \A o \in DOMAIN mp.spents :
       mp.spents[o] \in PoolEntries /\ o \in InputsOf(mp.spents[o])

\* C6 as stated: when addBlock(block) has returned, has(hash) is false for
\* every transaction of the block, whatever calls ran or waited meanwhile
C6_Original ==
  done.op = "addBlock" =>
    \A i \in 1..Len(BLOCKS[done.hash].txs) : ~PoolHas(mp, BLOCKS[done.hash].txs[i])

\* C7 as stated: when an addTX call has returned, whatever it answered, the
\* size of the mempool is at most maxSize
C7_Original == done.op = "addTX" => mp.size <= MaxSize

\* what the mempool holds, without the state of its lock
Contents(M) ==
  [tx |-> M.tx, spents |-> M.spents, orphans |-> M.orphans, coins |-> M.coins,
   waiting |-> M.waiting, size |-> M.size, totalOrphans |-> M.totalOrphans]

\* a call holds the lock and stays at its wait while the step calls another
\* operation of the mempool
Suspended ==
  /\ mp.busy /\ mp'.busy /\ mp'.run = mp.run /\ calls' # calls
  /\ mp.run.stage \in {"final", "hasCoins", "fill", "verify"}

\* C14 as stated: addTX, addBlock and removeBlock are serialized by the lock:
\* while one of them is suspended part-way, no other changes the mempool
C14_Original == [][Suspended => Contents(mp') = Contents(mp)]_vars

\* no removeBlock call waits for the lock
NoRemoveQueued(M) == \A i \in 1..Len(M.jobs) : M.jobs[i].op # "removeBlock"

\* the step is the chain's connect that follows a disconnect: the addBlock that
\* matches the removeBlock of a reorganization (the lock is free or held by a
\* call that waits for the chain database or for verification)
ReorgConnect ==
  /\ calls'.block # calls.block
  /\ last.op = "disconnect" /\ last'.op = "connect"
  /\ mp.run.stage # "coinbase"

\* C15 as stated: the mempool handles the chain's disconnect before the
\* connect that follows it, and between the removeBlock and the matching
\* addBlock it works on no addTX
C15_Original ==
  [][ReorgConnect =>
       /\ NoRemoveQueued(mp)
       /\ ~(mp.run.op = "addTX" /\ mp.run.stage \in {"hasCoins", "fill", "verify"})]_vars

\* the orphan lacks only coins that are outputs of the parent
OnlyWaitsFor(M, orphan, parent) ==
  /\ HasOrphan(M, orphan)
  /\ FillFrom(orphan, parent) # {}
  /\ M.coins[orphan] \cup FillFrom(orphan, parent) = 1..Len(TXS[orphan].inputs)

\* the step on which the running addTX returns with the result, no other call
\* waiting for the lock
Returns(res) ==
  /\ mp.run.op = "addTX" /\ mp.jobs = <<>>
  /\ done' = Returned("addTX", mp.run.hash, res)

\* the memory the orphans would take in the pool
RECURSIVE OrphanUsage(_)
OrphanUsage(hashes) ==
  IF hashes = <<>> THEN 0 ELSE MemUsage(Head(hashes)) + OrphanUsage(Tail(hashes))

\* the transaction and the orphans fit into the pool beside what it holds
HasRoom(M, hash) == M.size + MemUsage(hash) + OrphanUsage(M.orphans) <= MaxSize

Conflicts(M, hash) ==
  {a \in {M.tx[i] : i \in 1..Len(M.tx)} : a # hash /\ InputsOf(a) \cap InputsOf(hash) # {}}

\* the running addTX returns for a transaction that neither the mempool nor
\* the chain knows, while an entry of the pool spends one of its outpoints
ReturnsConflicting ==
  /\ mp.run.op = "addTX" /\ mp.jobs = <<>>
  /\ done'.op = "addTX" /\ done'.hash = mp.run.hash
  /\ ~PoolHas(mp, mp.run.hash)
  /\ ~ChainHasCoins(State, mp.run.hash)
  /\ Conflicts(mp, mp.run.hash) # {}

\* C17 as stated: a transaction that spends an outpoint which an entry of the
\* pool spends is rejected as a duplicate, the entry stays and the transaction
\* is not in the mempool
C17_Original ==
  [][ReturnsConflicting =>
       /\ done'.res = "duplicate"
       /\ \A a \in Conflicts(mp, mp.run.hash) : PoolHasTX(mp', a)
       /\ ~PoolHas(mp', mp.run.hash)]_vars

\* C18 as stated: whenever a mempool operation has returned, the orphan pool
\* holds at most MAX_ORPHAN_TX transactions
C18_Original == done.op # "none" => Len(mp.orphans) <= MAX_ORPHAN_TX

-----------------------------------------------------------------------------
(* Properties of the pruning chain database *)

\* the block spends a coin, so connectBlock writes an undo record for it
HasUndo(hash) ==
  \E i \in 1..Len(BLOCKS[hash].txs) : ~IsCoinbase(TXS[BLOCKS[hash].txs[i]])

\* the body of the block and, when it has one, its undo record are stored
Kept(hash) == Has(db.b, hash) /\ (HasUndo(hash) => Has(db.u, hash))

\* the main-chain blocks above the genesis block at a height over the floor
MainAbove(floor) ==
  {MainBranch[i] : i \in {j \in 1..Len(MainBranch) :
                          GetEntryByHash(State, MainBranch[j]).height > floor}}

\* the chain is at rest and its last call ended without error
AtRest == job = <<>> /\ last.err = "none"

\* C19 as stated: with pruning enabled, every main-chain block within
\* keepBlocks of the tip has its body and its undo record stored
C19_Original ==
  (options.prune /\ AtRest) =>
    \A hash \in MainAbove(TipEntry.height - options.keepBlocks) : Kept(hash)

\* the highest height at which a block has been connected, as the prune
\* queue records it
HighestConnected ==
  IF DOMAIN db.q = {} THEN TipEntry.height
  ELSE (CHOOSE h \in DOMAIN db.q : \A g \in DOMAIN db.q : g <= h) - options.keepBlocks

\* the coin that getCoin answers for every outpoint
CoinsOf(S) ==
  [o \in {Outpoint(x, i) : x \in TxHashes, i \in 0..1} |-> ChainGetCoin(S, o.hash, o.index)]

\* disconnecting the tip leaves the coins of the main chain without the tip
TipRestores ==
  LET r == Disconnect(State, TipEntry)
  IN CoinsOf([r.S EXCEPT !.db = BatchWrite(r.S.db, r.batch)])
       = CoinsOf(ConnectAlone(Genesis, SubSeq(MainBranch, 1, Len(MainBranch) - 1), 1))

\* C19, amended: with pruning enabled, every main-chain block within keepBlocks
\* of the highest height a block was connected at has its body and its undo
\* record stored, and disconnecting the tip, when it is such a block,
\* reconstructs the coins
C19_KeptAboveHorizon ==
  options.prune =>
    /\ \A hash \in MainAbove(HighestConnected - options.keepBlocks) : Kept(hash)
    /\ (tip # GENESIS /\ TipEntry.height > HighestConnected - options.keepBlocks)
         => TipRestores

\* a reorganization has left the pruned block A1 under the new tip Y, which is
\* kept with its undo record
C19_Witness ==
  /\ options.prune /\ tip = "Y" /\ last = Called("connect", "Y", "none")
  /\ reorgs # <<>>
  /\ HighestConnected = 3
  /\ ~Has(db.b, "A1")
  /\ Has(db.b, "Y") /\ Has(db.u, "Y")

\* the chain database is asked to disconnect a block whose body is pruned
DisconnectsPruned ==
  /\ options.prune
  /\ job # <<>> /\ Head(job).op = "disconnect" /\ last'.op = "disconnect"
  /\ ChainGetBlock(State, Head(job).hash) = NoHash

\* C20 as stated: a reorganization that has to disconnect a pruned block is
\* rejected and the chain database is left as it was before the attempt: the
\* tip, the tip record, the height index, the next pointers, the coins and the
\* caches
C20_Original ==
  [][DisconnectsPruned =>
       /\ last'.err = "notfound"
       /\ tip' = TipBefore /\ db'.R = TipBefore
       /\ GetHash(db'.H, GetEntryByHash(State', TipBefore).height) = TipBefore
       /\ GetHash(db'.n, BLOCKS[TipBefore].prevBlock) = TipBefore
       /\ CoinsOf(State') = CoinsOf(ConnectAlone(Genesis, Reverse(Branch(State', TipBefore, 0)), 1))
       /\ cacheHeight' = cacheHeight]_vars

\* the events of removeUnchecked(entry) as addBlock calls it, without limit:
\* removeOrphan is handed the transaction and emits, then 'remove tx'
RemoveUncheckedEvents(hash) ==
  <<Event("remove orphan", hash), Event("remove tx", hash)>>

\* the events addBlock(block) emits, in order
RECURSIVE AddBlockEvents(_, _, _)
AddBlockEvents(M, txs, i) ==
  IF i < 1 THEN <<>>
  ELSE IF IsCoinbase(TXS[txs[i]]) THEN AddBlockEvents(M, txs, i - 1)
  ELSE IF ~PoolHasTX(M, txs[i])
       THEN (IF HasOrphan(M, txs[i]) THEN <<Event("remove orphan", txs[i])>> ELSE <<>>)
            \o AddBlockEvents(RemoveOrphan(M, txs[i]), txs, i - 1)
  ELSE RemoveUncheckedEvents(txs[i]) \o <<Event("confirmed", txs[i])>>
       \o AddBlockEvents(RemoveUnchecked(M, txs[i], FALSE), txs, i - 1)

\* the chain connects a block and addBlock runs
BlockAdded == calls'.block # calls.block /\ last'.op = "connect"

\* C21 as stated: whenever addBlock removes a confirmed transaction, its
\* 'confirmed' event is emitted before its 'remove tx' event
C21_Original ==
  [][BlockAdded =>
       LET ev == AddBlockEvents(mp, BLOCKS[tip'].txs, Len(BLOCKS[tip'].txs))
       IN \A i \in 1..Len(ev) :
            ev[i].name = "remove tx" =>
              \E j \in 1..(i - 1) : ev[j] = Event("confirmed", ev[i].hash)]_vars

-----------------------------------------------------------------------------
(* Properties of the wallet's transaction database *)

\* the stored inputs that spend an outpoint the new transaction spends, when
\* the coin is no longer unspent
Colliding(W, hash) ==
  {W.s[TXS[hash].inputs[i]] :
     i \in {k \in 1..Len(TXS[hash].inputs) :
              /\ ~IsCoinbase(TXS[hash])
              /\ TXS[hash].inputs[k] \notin W.c
              /\ Has(W.s, TXS[hash].inputs[k])}}

\* the wallet is sent a new transaction that collides with a stored spender
\* whose spent coin is on record
AddsColliding ==
  /\ wdone'.n # wdone.n
  /\ ~Has(txdb.t, wdone'.hash)
  /\ Colliding(txdb, wdone'.hash) # {}
  /\ Colliding(txdb, wdone'.hash) \subseteq txdb.d

\* the new transaction is stored and the spender is not
Replaces(old) == Has(txdb'.t, wdone'.hash) /\ ~Has(txdb'.t, old)

Removed == (DOMAIN txdb.t) \ (DOMAIN txdb'.t)

Emitted(name, hash) == \E i \in 1..Len(wdone'.ev) : wdone'.ev[i] = Event(name, hash)

-----------------------------------------------------------------------------
(* Mempool.verify, called on its own.  What the transaction, the entry and *)
(* the script interpreter report is the input; the pool's options are the  *)
(* constructor's defaults, with requireStandard taken from the network.    *)

MAX_SIGOPS_COST == 80000

ANCESTOR_LIMIT == 25

\* limitFreeRelay * 10 * 1000 with the default limitFreeRelay of 15
FreeLimit == 150000

PoolOptions == [limitFree |-> TRUE, relayPriority |-> TRUE, rejectAbsurdFees |-> TRUE]

VerifyError(code, reason, score) ==
  [type |-> "VerifyError", code |-> code, reason |-> reason, score |-> score]

NoError == [type |-> "none", code |-> "", reason |-> "", score |-> 0]

\* what tx.checkInputs leaves in ret when it fails
CheckInputsRets ==
  { [ok |-> TRUE, reason |-> "", score |-> 0],
    [ok |-> FALSE, reason |-> "bad-txns-in-belowout", score |-> 100],
    [ok |-> FALSE, reason |-> "bad-txns-premature-spend-of-coinbase", score |-> 0] }

VerifyInputs ==
  [ requireStandard : BOOLEAN,
    locks           : BOOLEAN,
    standardInputs  : BOOLEAN,
    sigops          : {MAX_SIGOPS_COST, MAX_SIGOPS_COST + 1},
    fee             : {0, 2, 10001},
    rejectFee       : {0, 2},
    minRelayFee     : {1},
    isFree          : BOOLEAN,
    freeCount       : {0, FreeLimit + 1},
    ancestors       : {ANCESTOR_LIMIT, ANCESTOR_LIMIT + 1},
    checkInputs     : CheckInputsRets,
    verifyFlags     : BOOLEAN,
    verifyMandatory : BOOLEAN ]

\* the two script runs at the end of verify
VerifyScripts(in) ==
  IF in.verifyFlags THEN NoError
  ELSE IF in.verifyMandatory
       THEN VerifyError("nonstandard", "non-mandatory-script-verify-flag", 0)
       ELSE VerifyError("nonstandard", "mandatory-script-verify-flag", 0)

\* entry.fees is the fee of the transaction until prioritise changes it
Verify(in) ==
  LET modFee == in.fee
  IN IF ~in.locks THEN VerifyError("nonstandard", "non-BIP68-final", 0)
     ELSE IF in.requireStandard /\ ~in.standardInputs
          THEN VerifyError("nonstandard", "bad-txns-nonstandard-inputs", 0)
     ELSE IF in.sigops > MAX_SIGOPS_COST
          THEN VerifyError("nonstandard", "bad-txns-too-many-sigops", 0)
     ELSE IF in.rejectFee > 0 /\ modFee < in.rejectFee
          THEN VerifyError("insufficientfee", "mempool min fee not met", 0)
     ELSE IF PoolOptions.relayPriority /\ modFee < in.minRelayFee /\ ~in.isFree
          THEN VerifyError("insufficientfee", "insufficient priority", 0)
     ELSE IF PoolOptions.limitFree /\ modFee < in.minRelayFee /\ in.freeCount > FreeLimit
          THEN VerifyError("insufficientfee", "rate limited free transaction", 0)
     ELSE IF PoolOptions.rejectAbsurdFees /\ in.fee > in.minRelayFee * 10000
          THEN VerifyError("highfee", "absurdly-high-fee", 0)
     ELSE IF in.ancestors > ANCESTOR_LIMIT
          THEN VerifyError("nonstandard", "too-long-mempool-chain", 0)
     ELSE IF ~in.checkInputs.ok
          THEN VerifyError("invalid", in.checkInputs.reason, in.checkInputs.score)
     ELSE VerifyScripts(in)

\* verify keeps nothing of one call for the next: one call from each start
MempoolVerify(in) ==
  /\ unit.fn = "none"
  /\ unit' = [fn |-> "verify", in |-> in, err |-> Verify(in)]
  /\ UNCHANGED <<chainOnly, mp, done, calls, walletVars>>

NextVerify == \E in \in VerifyInputs : MempoolVerify(in)

SpecVerify == Init /\ [][NextVerify]_vars

\* C23: a rejection for scripts that fail under the mandatory verify flags
\* carries score 100
C23_Original ==
  (unit.fn = "verify" /\ unit.err.reason = "mandatory-script-verify-flag")
    => unit.err.score = 100

-----------------------------------------------------------------------------
(* A Coins bundle on its own: made of a coin or of a transaction, given    *)
(* the coins of its transaction, spent from, serialized and parsed back.   *)

\* the highest output index a call names; the transactions have two outputs at most
MaxIndex == 2

CoinTxs == {"ca1", "ca3", "ta2"}

\* unconfirmed, the genesis height, a height and one whose shift leaves 31 bits
CoinHeights == {-1, 0, 2, 1073741824}

NotParsed == [index |-> -1, res |-> Null]

Bundle(op, hash, height, coins) ==
  [fn |-> "coins", op |-> op, hash |-> hash, height |-> height, coins |-> coins,
   raw |-> Null, parsed |-> NotParsed]

\* CoinView.addCoin(coin) for a hash the view has no bundle of: new Coins() and
\* add(coin) at once, the one place that makes an empty bundle
UnitAddCoin(hash, height, index) ==
  /\ unit.fn = "none"
  /\ index + 1 <= Len(TXS[hash].outputs)
  /\ unit' = Bundle("addCoin", hash, height,
                    CoinsAdd(NewCoins, Coin(TXS[hash], hash, index, height)))
  /\ UNCHANGED <<chainOnly, mp, done, calls, walletVars>>

\* Coins.fromTX(tx)
UnitFromTX(hash, height) ==
  /\ unit.fn = "none"
  /\ unit' = Bundle("fromTX", hash, height, CoinsFromTX(hash, height))
  /\ UNCHANGED <<chainOnly, mp, done, calls, walletVars>>

\* coins.add(coin), as CoinView.addCoin does: the bundle of a hash is given
\* the coins of that hash
UnitAdd(index) ==
  /\ unit.fn = "coins"
  /\ index + 1 <= Len(TXS[unit.hash].outputs)
  /\ unit' = [unit EXCEPT !.op = "add", !.raw = Null, !.parsed = NotParsed,
                !.coins = CoinsAdd(unit.coins,
                                   Coin(TXS[unit.hash], unit.hash, index, unit.height))]
  /\ UNCHANGED <<chainOnly, mp, done, calls, walletVars>>

\* coins.spend(index)
UnitSpend(index) ==
  /\ unit.fn = "coins"
  /\ unit' = [unit EXCEPT !.op = "spend", !.raw = Null, !.parsed = NotParsed,
                !.coins = CoinsSpend(unit.coins, index)]
  /\ UNCHANGED <<chainOnly, mp, done, calls, walletVars>>

\* Coins.fromRaw(coins.toRaw(), coins.hash)
UnitRoundTrip ==
  /\ unit.fn = "coins"
  /\ unit' = [unit EXCEPT !.op = "fromRaw", !.raw = CoinsToRaw(unit.coins),
                !.parsed = NotParsed,
                !.coins = CoinsFromRaw(CoinsToRaw(unit.coins), unit.coins.hash)]
  /\ UNCHANGED <<chainOnly, mp, done, calls, walletVars>>

\* Coins.parseCoin(coins.toRaw(), coins.hash, index)
UnitParseCoin(index) ==
  /\ unit.fn = "coins"
  /\ unit' = [unit EXCEPT !.op = "parseCoin", !.raw = CoinsToRaw(unit.coins),
                !.parsed = [index |-> index,
                            res |-> ParseCoin(CoinsToRaw(unit.coins), unit.coins.hash, index)]]
  /\ UNCHANGED <<chainOnly, mp, done, calls, walletVars>>

NextCoins ==
  \/ \E hash \in CoinTxs, height \in CoinHeights, index \in 0..MaxIndex :
       UnitAddCoin(hash, height, index)
  \/ \E hash \in CoinTxs, height \in CoinHeights : UnitFromTX(hash, height)
  \/ \E index \in 0..MaxIndex : UnitAdd(index)
  \/ \E index \in 0..MaxIndex : UnitSpend(index)
  \/ UnitRoundTrip
  \/ \E index \in 0..MaxIndex : UnitParseCoin(index)

SpecCoins == Init /\ [][NextCoins]_vars

RoundTrips == unit'.fn = "coins" /\ unit'.op = "fromRaw" /\ unit.fn = "coins"

\* C24: a bundle read back from its serialization has the version, the height,
\* the coinbase flag and the outputs, slot for slot, of the bundle that was
\* written, and is written as the same bytes
C24_RoundTrip ==
  [][RoundTrips =>
       /\ unit'.coins.version = unit.coins.version
       /\ unit'.coins.height = unit.coins.height
       /\ unit'.coins.coinbase = unit.coins.coinbase
       /\ unit'.coins.outputs = unit.coins.outputs
       /\ CoinsToRaw(unit'.coins) = unit'.raw]_vars

\* an unconfirmed bundle with a spent slot before a coin, read back
C24_Witness ==
  /\ unit.fn = "coins" /\ unit.op = "fromRaw"
  /\ unit.coins.height = -1
  /\ Len(unit.coins.outputs) = 2
  /\ unit.coins.outputs[1] = Null
  /\ unit.coins.outputs[2] # Null

\* C25: parsing the coin at one index out of the serialized bundle gives what
\* the bundle parsed whole holds at that index: the coin, or nothing for a
\* spent slot and for an index past the last output
C25_Original ==
  (unit.fn = "coins" /\ unit.op = "parseCoin")
    => unit.parsed.res = CoinsGet(CoinsFromRaw(unit.raw, unit.coins.hash), unit.parsed.index)

-----------------------------------------------------------------------------
(* Chain entries on their own: each one is made on top of the last, its    *)
(* target and its timestamp any the header can hold.                       *)

\* how many entries are made on top of the first
MaxEntries == 4

\* targets from none (proof 0) to the highest the limit allows
WorkTargets == {0, 1, 3, PowLimit}

\* new ChainEntry(chain, block, prev): chainwork = this.getChainwork(prev)
UnitEntry(bits) ==
  /\ unit.fn \in {"none", "entry"}
  /\ unit.fn = "entry" => unit.height < MaxEntries
  /\ LET prev == IF unit.fn = "none" THEN Null ELSE unit
     IN unit' = [fn |-> "entry", bits |-> bits,
                 height |-> IF prev = Null THEN 0 ELSE prev.height + 1,
                 prevwork |-> IF prev = Null THEN 0 ELSE prev.chainwork,
                 chainwork |-> GetChainwork(bits, prev)]
  /\ UNCHANGED <<chainOnly, mp, done, calls, walletVars>>

NextWork == \E bits \in WorkTargets : UnitEntry(bits)

SpecWork == Init /\ [][NextWork]_vars

Min(a, b) == IF a <= b THEN a ELSE b

\* C26: the chainwork of an entry is the smaller of MAX_CHAINWORK and the
\* chainwork of its predecessor plus its own proof, so never above MAX_CHAINWORK
C26_Original ==
  unit.fn = "entry" =>
    /\ unit.chainwork = Min(unit.prevwork + GetProof(unit.bits), MAX_CHAINWORK)
    /\ unit.chainwork <= MAX_CHAINWORK

-----------------------------------------------------------------------------
(* getMedianTime on its own: ancestors[1] is the entry itself, the entries *)
(* before it follow, the newest first.                                     *)

MEDIAN_TIMESPAN == 11

\* how many entries the chain the median is taken of grows to
MaxAncestors == 12

\* header timestamps: any u32
TimeStamps == {9, 10}

\* String(n) for a number n >= 0, as the sequence of its decimal digits
RECURSIVE Digits(_)
Digits(n) == IF n < 10 THEN <<n>> ELSE Append(Digits(n \div 10), n % 10)

\* a < b as strings, code unit by code unit
RECURSIVE StrLess(_, _)
StrLess(a, b) ==
  IF b = <<>> THEN FALSE
  ELSE IF a = <<>> THEN TRUE
  ELSE IF a[1] # b[1] THEN a[1] < b[1]
  ELSE StrLess(Tail(a), Tail(b))

\* Array.prototype.sort without a comparator orders by the elements' strings
SortLess(x, y) == StrLess(Digits(x), Digits(y))

RECURSIVE SortInsert(_, _)
SortInsert(sorted, x) ==
  IF sorted = <<>> THEN <<x>>
  ELSE IF SortLess(x, Head(sorted)) THEN <<x>> \o sorted
  ELSE <<Head(sorted)>> \o SortInsert(Tail(sorted), x)

RECURSIVE ArraySort(_)
ArraySort(xs) == IF xs = <<>> THEN <<>> ELSE SortInsert(ArraySort(Tail(xs)), Head(xs))

\* the for loop: the entry and the ancestors after it, timeSpan at most
MedianOf(ancestors) ==
  SubSeq(ancestors, 1, IF Len(ancestors) < MEDIAN_TIMESPAN THEN Len(ancestors) ELSE MEDIAN_TIMESPAN)

GetMedianTime(ancestors) ==
  LET median == ArraySort(MedianOf(ancestors))
  IN median[(Len(median) \div 2) + 1]

\* an entry is made on the chain and asked for its median time
UnitMedian(ts) ==
  /\ unit.fn \in {"none", "median"}
  /\ unit.fn = "median" => Len(unit.ancestors) < MaxAncestors
  /\ LET ancestors == <<ts>> \o (IF unit.fn = "none" THEN <<>> ELSE unit.ancestors)
     IN unit' = [fn |-> "median", ancestors |-> ancestors, median |-> GetMedianTime(ancestors)]
  /\ UNCHANGED <<chainOnly, mp, done, calls, walletVars>>

NextMedian == \E ts \in TimeStamps : UnitMedian(ts)

SpecMedian == Init /\ [][NextMedian]_vars

\* the element at 0-based position Len \div 2 of xs put in ascending order
IsMiddle(xs, m) ==
  LET k == Len(xs) \div 2
  IN /\ \E i \in 1..Len(xs) : xs[i] = m
     /\ Cardinality({i \in 1..Len(xs) : xs[i] < m}) <= k
     /\ Cardinality({i \in 1..Len(xs) : xs[i] <= m}) > k

\* C27: the median time is the middle one, in ascending order of the numbers,
\* of the timestamps of the entry and the entries before it, 11 at most
C27_Original ==
  unit.fn = "median" => IsMiddle(MedianOf(unit.ancestors), unit.median)

-----------------------------------------------------------------------------
(* Properties of the mempool when a block is connected *)

\* the transactions of the block other than its coinbase
BlockSpenders(b) ==
  {BLOCKS[b].txs[i] : i \in {j \in 1..Len(BLOCKS[b].txs) : ~IsCoinbase(TXS[BLOCKS[b].txs[j]])}}

\* C28 as stated: once addBlock has returned, no entry of the mempool spends an
\* outpoint that a transaction of the block spends
C28_Original ==
  [][BlockAdded =>
       \A a \in {mp'.tx[i] : i \in 1..Len(mp'.tx)} :
         \A t \in BlockSpenders(tip') \ {a} :
           InputsOf(a) \cap InputsOf(t) = {}]_vars

\* the orphans parked under a transaction of the block in the waiting index
WaitingOn(M, b) ==
  {o \in {M.orphans[i] : i \in 1..Len(M.orphans)} :
     \E i \in 1..Len(BLOCKS[b].txs) :
       Has(M.waiting, BLOCKS[b].txs[i]) /\ InSeq(M.waiting[BLOCKS[b].txs[i]], o)}

\* C29 as stated: once addBlock has returned, no orphan is left waiting on a
\* transaction of the block
C29_Original == [][BlockAdded => WaitingOn(mp', tip') = {}]_vars

-----------------------------------------------------------------------------
(* ChainDB.reset: the chain is cut back to one of its main-chain entries   *)

\* removeBlock(hash, batch)
RemoveBlock(S, hash, batch) ==
  IF ChainGetBlock(S, hash) = NoHash THEN [S |-> S, batch |-> batch]
  ELSE DisconnectBlock(S, hash, Append(batch, BatchDel("b", hash)))

RECURSIVE ResetLoop(_, _, _)

\* reset, the callback of batch.write: self.get(tip.prevBlock, next)
ResetNext(S, prevBlock, entry) == ResetLoop(S, GetEntryByHash(S, prevBlock), entry)

\* reset, the callback of removeBlock: batch.write of what it returned
ResetWrite(r, prevBlock, entry) ==
  ResetNext([r.S EXCEPT !.db = BatchWrite(r.S.db, r.batch)], prevBlock, entry)

\* the loop of reset: one batch for each entry from the tip down to the target
ResetLoop(S, tipEntry, entry) ==
  IF tipEntry = Null THEN S
  ELSE IF tipEntry.hash = entry.hash
       THEN [S EXCEPT !.db = BatchWrite(S.db, <<BatchPut("R", "R", tipEntry.hash)>>)]
  ELSE ResetWrite(RemoveBlock(S, tipEntry.hash,
                              <<BatchDel("H", tipEntry.height), BatchDel("h", tipEntry.hash),
                                BatchDel("e", tipEntry.hash), BatchDel("n", tipEntry.prevBlock)>>),
                  tipEntry.prevBlock, entry)

\* reset, the callback of get(block)
ResetTo(S, entry) == IF entry = Null THEN S ELSE ResetLoop(S, ChainGetTip(S), entry)

\* reset(block) with a height
Reset(S, height) == ResetTo(S, GetEntryByHeight(S, height))

\* the chain after the database's reset
AfterReset(S) ==
  /\ db' = S.db
  /\ cacheHash' = S.cacheHash
  /\ cacheHeight' = S.cacheHeight
  /\ coinCache' = S.coinCache
  /\ tip' = S.db.R
  /\ last' = Called("reset", S.db.R, "none")

\* the resets a behaviour is let to make
MaxResets == 1

\* Chain.reset(height): no block is being added; the chain's tip is the
\* database's afterwards
ChainReset(height) ==
  /\ job = <<>>
  /\ calls.reset < MaxResets
  /\ calls' = [calls EXCEPT !.reset = @ + 1]
  /\ GetEntryByHeight(State, height) # Null
  /\ GetEntryByHeight(State, height).hash # tip
  /\ AfterReset(Reset(State, height))
  /\ UNCHANGED <<options, job, reorgs, mp, done, walletVars, unitVars>>

NextReset ==
  \/ Next
  \/ \E height \in Heights : ChainReset(height)

SpecReset == Init /\ [][NextReset]_vars

\* C30 as stated: a lookup by height gives the entry that the H record of the
\* height names, and nothing when there is no such record
C30_Original ==
  \A height \in Heights :
    GetEntryByHeight(State, height) =
      (IF Has(db.H, height) THEN Get(db.e, db.H[height]) ELSE Null)

-----------------------------------------------------------------------------
(* The rolling minimum fee rate on its own: an eviction raises it, blocks  *)
(* arrive, time passes and getMinRate is called.                           *)

\* constants.mempool.FEE_HALFLIFE in seconds, scaled down from 12 hours
FEE_HALFLIFE == 24

\* constants.tx.MIN_RELAY, the minReasonableFee of the constructor
MIN_RELAY == 10000

\* the last second of a behaviour
MaxNow == 48

\* the seconds between two calls: just over the 10 that getMinRate waits for,
\* and a whole halflife
TickSteps == {11, FEE_HALFLIFE}

\* the rates of the entries evicted and the sizes the pool is left with
EvictRates == {30000, 70000}

PoolSizes == {0, MaxSize \div 4, MaxSize \div 2}

\* halflife >>>= 2 below maxSize / 4, halflife >>>= 1 below maxSize / 2
HalfLifeAt(size) ==
  IF 4 * size < MaxSize THEN FEE_HALFLIFE \div 4
  ELSE IF 2 * size < MaxSize THEN FEE_HALFLIFE \div 2
  ELSE FEE_HALFLIFE

\* getMinRate(): the fields it leaves and the rate it returns
GetMinRate(F) ==
  IF ~F.blockSinceBump \/ F.minFeeRate = 0 THEN [F EXCEPT !.ret = F.minFeeRate]
  ELSE IF F.now > F.lastFeeUpdate + 10
  THEN LET rate == F.minFeeRate \div Pow2((F.now - F.lastFeeUpdate) \div HalfLifeAt(F.size))
       IN IF 2 * rate < MIN_RELAY
          THEN [F EXCEPT !.minFeeRate = 0, !.lastFeeUpdate = F.now, !.ret = 0]
          ELSE [F EXCEPT !.minFeeRate = rate, !.lastFeeUpdate = F.now,
                         !.ret = IF rate > MIN_RELAY THEN rate ELSE MIN_RELAY]
  ELSE [F EXCEPT !.ret = IF F.minFeeRate > MIN_RELAY THEN F.minFeeRate ELSE MIN_RELAY]

\* removeUnchecked(entry, true) in a mempool just made: the rate of the entry
\* plus minReasonableFee becomes the minimum; since and bumped are kept for the
\* properties, the second at which the first block came and the rate then
FeeEvict(rate, size) ==
  /\ unit.fn = "none"
  /\ unit' = [fn |-> "fees", op |-> "evict", minFeeRate |-> rate + MIN_RELAY,
              blockSinceBump |-> FALSE, lastFeeUpdate |-> 0, now |-> 0, size |-> size,
              ret |-> rate + MIN_RELAY, since |-> -1, bumped |-> rate + MIN_RELAY]
  /\ UNCHANGED <<chainOnly, mp, done, calls, walletVars>>

\* addBlock: blockSinceBump = true, lastFeeUpdate = utils.now()
FeeBlock ==
  /\ unit.fn = "fees"
  /\ unit' = [unit EXCEPT !.op = "addBlock", !.blockSinceBump = TRUE,
                !.lastFeeUpdate = unit.now,
                !.since = IF unit.since = -1 THEN unit.now ELSE unit.since]
  /\ UNCHANGED <<chainOnly, mp, done, calls, walletVars>>

\* time passes
FeeTick(d) ==
  /\ unit.fn = "fees"
  /\ unit.now + d <= MaxNow
  /\ unit' = [unit EXCEPT !.op = "tick", !.now = unit.now + d]
  /\ UNCHANGED <<chainOnly, mp, done, calls, walletVars>>

FeeGetMinRate ==
  /\ unit.fn = "fees"
  /\ unit' = [GetMinRate(unit) EXCEPT !.op = "getMinRate"]
  /\ UNCHANGED <<chainOnly, mp, done, calls, walletVars>>

NextFees ==
  \/ \E rate \in EvictRates, size \in PoolSizes : FeeEvict(rate, size)
  \/ FeeBlock
  \/ \E d \in TickSteps : FeeTick(d)
  \/ FeeGetMinRate

SpecFees == Init /\ [][NextFees]_vars

\* the rate of the eviction halved once for every halflife gone by since the
\* first block after it, or minReasonableFee, the least rate above 0 returned
Decayed(F) ==
  LET rate == F.bumped \div Pow2((F.now - F.since) \div HalfLifeAt(F.size))
  IN IF rate > MIN_RELAY THEN rate ELSE MIN_RELAY

\* C31 as stated: once a block has come after the eviction, the rate that
\* getMinRate returns is never above the rate it returned before, and has
\* halved for every halflife gone by since, however often it was called
C31_Original ==
  [][(unit'.fn = "fees" /\ unit'.op = "getMinRate" /\ unit'.since # -1) =>
       /\ unit'.ret <= unit.ret
       /\ unit'.ret <= Decayed(unit')]_vars

-----------------------------------------------------------------------------
(* Callbacks and the lock: addTX, addBlock and removeBlock under a fair event loop *)

\* the transactions sent: one admitted, one parked as an orphan and resolved,
\* one rejected before the first wait, one rejected as a double spend
LockTxs == {"ta2", "tc3", "ca2", "ty"}

NextLock ==
  \/ \E t \in LockTxs : CallAddTX(t)
  \/ AddTXReject
  \/ AddTXFinal
  \/ AddTXHasCoins
  \/ AddTXFill
  \/ AddTXVerify
  \/ \E b \in BlockHashes : PoolConnect(b)
  \/ PoolDisconnect

\* the stages of addTX that follow the chain database reads and the script
\* verification
FillDue == mp.run.op = "addTX" /\ mp.run.stage = "fill"

VerifyDue == mp.run.op = "addTX" /\ mp.run.stage = "verify"

\* the event loop runs every callback that is due: a stage of addTX that can
\* run does run. For AddTXFill and AddTXVerify weak fairness is written out,
\* with ENABLED <<A>>_vars as the state predicate it equals: a stage that is
\* due can always take its step, and the step changes mp
LockFairness ==
  /\ WF_vars(AddTXReject)
  /\ WF_vars(AddTXFinal)
  /\ WF_vars(AddTXHasCoins)
  /\ ([]<>(~FillDue) \/ []<><<AddTXFill>>_vars)
  /\ ([]<>(~VerifyDue) \/ []<><<AddTXVerify>>_vars)

SpecLock == InitPool /\ [][NextLock]_vars /\ LockFairness

\* the addTX calls that hold the lock or wait for it
AddTXInFlight(M) ==
  (IF M.run.op = "addTX" THEN 1 ELSE 0)
    + Cardinality({i \in 1..Len(M.jobs) : M.jobs[i].op = "addTX"})

-----------------------------------------------------------------------------
(* Coin lookups beside the chain: getCoin and getCoins while blocks are
   connected and disconnected *)

\* the chain database opened again on a stored chain: the caches of the new
\* process are empty
Reopened == ConnectAlone(Genesis, <<"A1">>, 1)

InitLookup ==
  /\ options = NoPrune
  /\ db = Reopened.db
  /\ cacheHash = EmptyMap
  /\ cacheHeight = EmptyMap
  /\ coinCache = EmptyMap
  /\ tip = "A1"
  /\ job = <<>>
  /\ last = Called("open", "A1", "none")
  /\ reorgs = <<>>
  /\ mp = EmptyPool
  /\ done = NoCall
  /\ calls = NoCalls
  /\ txdb = EmptyTXDB
  /\ wdone = NoAdd
  /\ unit = NoUnit

\* what the parse callback of db.fetch returns to the caller
LookupParse(op, data, hash, index) ==
  IF op = "getCoin" THEN ParseCoin(data, hash, index) ELSE CoinsFromRaw(data, hash)

\* getCoin / getCoins: answered from the coin cache, or db.fetch is called
LookupCall(op, hash, index) ==
  /\ unit.fn = "none"
  /\ unit' = IF Has(coinCache, hash)
             THEN [fn |-> "lookup", op |-> op, hash |-> hash, index |-> index,
                   stage |-> "done", data |-> coinCache[hash],
                   ret |-> LookupParse(op, coinCache[hash], hash, index)]
             ELSE [fn |-> "lookup", op |-> op, hash |-> hash, index |-> index,
                   stage |-> "fetch", data |-> Null, ret |-> Null]
  /\ UNCHANGED <<chainVars, mp, done, calls, walletVars>>

\* the store reads the record c[hash]
LookupRead ==
  /\ unit.fn = "lookup" /\ unit.stage = "fetch"
  /\ unit' = [unit EXCEPT !.stage = "read", !.data = Get(db.c, unit.hash)]
  /\ UNCHANGED <<chainVars, mp, done, calls, walletVars>>

\* the callback of db.fetch: a record that was found is put in the coin cache
\* and parsed
LookupDone ==
  /\ unit.fn = "lookup" /\ unit.stage = "read"
  /\ coinCache' = IF unit.data = Null THEN coinCache
                  ELSE Put(coinCache, unit.hash, unit.data)
  /\ unit' = [unit EXCEPT !.stage = "done",
                          !.ret = IF unit.data = Null THEN Null
                                  ELSE LookupParse(unit.op, unit.data, unit.hash, unit.index)]
  /\ UNCHANGED <<options, db, cacheHash, cacheHeight, tip, job, last, reorgs,
                 mp, done, calls, walletVars>>

NextLookup ==
  \/ Next
  \/ \E op \in {"getCoin", "getCoins"}, hash \in CoinTxs, index \in 0..1 :
       LookupCall(op, hash, index)
  \/ LookupRead
  \/ LookupDone

SpecLookup == InitLookup /\ [][NextLookup]_vars

\* no lookup and no chain call is part-way through
LookupsAtRest == job = <<>> /\ (unit.fn = "lookup" => unit.stage = "done")

\* C33 as stated: once the lookup and the connection or disconnection have
\* completed, every buffer in the coin cache equals the stored record
\* c[hash], and no buffer is cached for a record that is not stored
C33_Original ==
  LookupsAtRest =>
    \A hash \in DOMAIN coinCache : Has(db.c, hash) /\ coinCache[hash] = db.c[hash]

-----------------------------------------------------------------------------
(* What addTX reports and where the transaction is *)

\* the transaction is in the pool or parked as an orphan
Held(M, hash) == PoolHasTX(M, hash) \/ HasOrphan(M, hash)

\* addTX calls back without an error
ReturnsSuccess == Returns("ok") \/ Returns("orphan")

\* addTX calls back with an error
ReturnsError ==
  \E res \in {"coinbase", "alreadyknown", "duplicate", "invalid", "full"} : Returns(res)

C34_Success == [][ReturnsSuccess => Held(mp', mp.run.hash)]_vars

C34_Error == [][ReturnsError => ~Held(mp', mp.run.hash)]_vars

\* C34 as stated: when addTX calls back without an error the transaction is in
\* the pool or in the orphan pool, and when it calls back with an error the
\* transaction is in neither
C34_Original == C34_Success /\ C34_Error

-----------------------------------------------------------------------------
(* The counters of the pool *)

\* the memory usage that addUnchecked added for the transactions
RECURSIVE UsageAdded(_)
UsageAdded(hashes) ==
  IF hashes = <<>> THEN 0 ELSE MemUsage(Head(hashes)) + UsageAdded(Tail(hashes))

\* the pool beside a chain that has connected A2: tb3 is sent while A3, which
\* holds it, connects, and the chain then goes back to A1
CounterTxs == {"tb3", "ta3", "ca2"}

CounterChain == ConnectAlone(Genesis, <<"A1", "A2">>, 1)

InitCounters ==
  /\ options = NoPrune
  /\ db = CounterChain.db
  /\ cacheHash = CounterChain.cacheHash
  /\ cacheHeight = CounterChain.cacheHeight
  /\ coinCache = CounterChain.coinCache
  /\ tip = "A2"
  /\ job = <<>>
  /\ last = Called("connect", "A2", "none")
  /\ reorgs = <<>>
  /\ mp = EmptyPool
  /\ done = NoCall
  /\ calls = NoCalls
  /\ txdb = EmptyTXDB
  /\ wdone = NoAdd
  /\ unit = NoUnit

NextCounters ==
  \/ \E t \in CounterTxs : CallAddTX(t)
  \/ AddTXReject
  \/ AddTXFinal
  \/ AddTXHasCoins
  \/ AddTXFill
  \/ AddTXVerify
  \/ \E b \in BlockHashes : PoolConnect(b)
  \/ PoolDisconnect

SpecCounters == InitCounters /\ [][NextCounters]_vars

\* C35: size is the sum of the memory usage added for the transactions in the
\* pool and totalTX is their number; both are 0 when the pool is empty
C35_Original ==
  /\ mp.size = UsageAdded(mp.tx)
  /\ mp.totalTX = Len(mp.tx)
  /\ mp.tx = <<>> => mp.size = 0 /\ mp.totalTX = 0

-----------------------------------------------------------------------------
(* What reset leaves behind *)

\* the step is a reset of the chain database
IsReset == calls'.reset # calls.reset

\* the main-chain entries of the state above the height
MainAbove_(S, chainTip, height) ==
  {e \in {S.db.e[x] : x \in DOMAIN S.db.e} :
     e.height > height /\ IsMainChain(S, chainTip, e.hash)}

\* the state after the step
StateAfter == [options |-> options', db |-> db', cacheHash |-> cacheHash',
               cacheHeight |-> cacheHeight', coinCache |-> coinCache']

\* the records of the entries at or below the height
EntryRecords(d, height) ==
  [ e |-> {x \in {d.e[y] : y \in DOMAIN d.e} : x.height <= height},
    h |-> {y \in DOMAIN d.h : d.h[y] <= height},
    H |-> {<<y, d.H[y]>> : y \in {z \in DOMAIN d.H : z <= height}} ]

\* C36 as stated: reset(target) ends with R naming the target, no entry above
\* the target returned by get, has, getHash or isMainChain, and the records
\* of the entries at or below the target as they were
C36_Original ==
  [][IsReset =>
       LET target == Get(db'.e, db'.R)
       IN /\ target # Null /\ IsMainChain(State, tip, target.hash)
          /\ target.height < GetEntryByHash(State, tip).height
          /\ \A e \in MainAbove_(State, tip, target.height) :
               /\ GetEntryByHash(StateAfter, e.hash) = Null
               /\ GetEntryByHeight(StateAfter, e.height) = Null
               /\ ~ChainHas(StateAfter, e.hash)
               /\ ChainGetHash(StateAfter, e.height) = NoHash
               /\ ~IsMainChain(StateAfter, tip', e.hash)
          /\ EntryRecords(db', target.height) = EntryRecords(db, target.height)]_vars

-----------------------------------------------------------------------------
(* sigcache.js: the signature cache in front of ec.verify *)

SigMsgs == {"m1", "m2", "m3"}

SigKeys == {"k1", "k2"}

\* a signature: the message and key it was made for, whether its S value is
\* low, and whether its encoding is strict DER. Every signature is non-empty.
Sigs == [for : SigMsgs, by : {"k1"}, lowS : BOOLEAN, der : BOOLEAN]

\* the sizes a cache is made with
MaxSigs == 2

\* ec.verify: the signature is imported (laxly when historical), normalized
\* to a low S value when high is allowed, and verified; secp256k1.verify
\* fails on a high S value
EcVerify(msg, sig, key, historical, high) ==
  /\ historical \/ sig.der
  /\ high \/ sig.lowS
  /\ sig.for = msg /\ sig.by = key

SigCacheEntry(sig, key) == [sig |-> sig, key |-> key]

\* new SigCache(size)
SigCache(size) == [size |-> size, keys |-> <<>>, valid |-> EmptyMap]

\* add(hash, sig, key), i the index Math.random gives when the cache is full
SigAdd(C, hash, sig, key, i) ==
  IF C.size = 0 THEN C
  ELSE LET valid == Put(C.valid, hash, SigCacheEntry(sig, key))
       IN IF Len(C.keys) >= C.size
          THEN [C EXCEPT !.valid = Del(valid, C.keys[i]),
                         !.keys = [C.keys EXCEPT ![i] = hash]]
          ELSE [C EXCEPT !.valid = valid, !.keys = Append(C.keys, hash)]

\* has(hash, sig, key)
SigHas(C, hash, sig, key) ==
  Has(C.valid, hash) /\ C.valid[hash].sig = sig /\ C.valid[hash].key = key

\* verify(msg, sig, key, historical, high): the result and the cache after it
SigVerify(C, msg, sig, key, historical, high, i) ==
  IF historical \/ C.size = 0
  THEN [C |-> C, ret |-> EcVerify(msg, sig, key, historical, high)]
  ELSE IF SigHas(C, msg, sig, key) THEN [C |-> C, ret |-> TRUE]
  ELSE IF ~EcVerify(msg, sig, key, historical, high) THEN [C |-> C, ret |-> FALSE]
  ELSE [C |-> SigAdd(C, msg, sig, key, i), ret |-> TRUE]

UnitSigCache(size) ==
  /\ unit.fn = "none"
  /\ unit' = [fn |-> "sigcache", op |-> "new", C |-> SigCache(size),
              ret |-> FALSE, ec |-> FALSE]
  /\ UNCHANGED <<chainVars, mp, done, calls, walletVars>>

UnitSigVerify(msg, sig, key, historical, high) ==
  /\ unit.fn = "sigcache"
  /\ \E i \in 1..MaxSigs :
       /\ i <= Len(unit.C.keys) \/ i = 1
       /\ LET r == SigVerify(unit.C, msg, sig, key, historical, high, i)
          IN unit' = [fn |-> "sigcache", op |-> "verify", C |-> r.C, ret |-> r.ret,
                      ec |-> EcVerify(msg, sig, key, historical, high)]
  /\ UNCHANGED <<chainVars, mp, done, calls, walletVars>>

NextSig ==
  \/ \E size \in 0..MaxSigs : UnitSigCache(size)
  \/ \E msg \in SigMsgs, sig \in Sigs, key \in SigKeys, historical, high \in BOOLEAN :
       UnitSigVerify(msg, sig, key, historical, high)

SpecSig == Init /\ [][NextSig]_vars

\* C37 as stated: verify returns what ec.verify returns for the same
\* arguments, whatever verify calls came before
C37_Original == (unit.fn = "sigcache" /\ unit.op = "verify") => unit.ret = unit.ec

-----------------------------------------------------------------------------
(* rbt.js: the in-memory store, an iterative red black tree.  Keys are one
   byte (compared as utils.cmp compares buffers), a node is an address in
   tree.nodes, address 0 is the shared SENTINEL, whose left and right are
   JS null. *)

MaxKey == 5

Keys == 1..MaxKey

Vals == {"a", "b"}

RED == "red"

BLACK == "black"

SENTINEL == 0

\* JS null where a node is expected
NilPtr == -1

\* the key or bound that was not given (undefined)
NoKey == 0

NoValue == "undefined"

RBTSentinel ==
  [key |-> NoKey, value |-> NoValue, color |-> BLACK,
   parent |-> NilPtr, left |-> NilPtr, right |-> NilPtr]

RBTNode(key, value) ==
  [key |-> key, value |-> value, color |-> RED,
   parent |-> SENTINEL, left |-> SENTINEL, right |-> SENTINEL]

RBTData(key, value) == [key |-> key, value |-> value]

\* new RBT(): thrown records a TypeError raised by reading a property of null
RBT == [root |-> SENTINEL, nodes |-> (SENTINEL :> RBTSentinel), thrown |-> FALSE]

Throw(T) == [T EXCEPT !.thrown = TRUE]

Fld(T, x, f) == T.nodes[x][f]

SetFld(T, x, f, v) == [T EXCEPT !.nodes[x][f] = v]

\* the address new RBTNode() gets
NewNode(T) == CHOOSE n \in 1..(MaxKey + 1) :
  /\ n \notin DOMAIN T.nodes
  /\ \A m \in 1..(n - 1) : m \in DOMAIN T.nodes

SetChild(T, p, x, y) ==
  IF p = SENTINEL THEN [T EXCEPT !.root = y]
  ELSE IF x = Fld(T, p, "left") THEN SetFld(T, p, "left", y)
  ELSE SetFld(T, p, "right", y)

RotlLink(T, x, y, yl, p) ==
  SetFld(SetFld(SetChild(SetFld(
    IF yl # SENTINEL THEN SetFld(SetFld(T, x, "right", yl), yl, "parent", x)
    ELSE SetFld(T, x, "right", yl),
    y, "parent", p), p, x, y), y, "left", x), x, "parent", y)

rotl(T, x) ==
  IF T.thrown THEN T
  ELSE IF x <= SENTINEL THEN Throw(T)
  ELSE IF Fld(T, x, "right") <= SENTINEL THEN Throw(T)
  ELSE RotlLink(T, x, Fld(T, x, "right"), Fld(T, Fld(T, x, "right"), "left"),
                Fld(T, x, "parent"))

SetChildR(T, p, x, y) ==
  IF p = SENTINEL THEN [T EXCEPT !.root = y]
  ELSE IF x = Fld(T, p, "right") THEN SetFld(T, p, "right", y)
  ELSE SetFld(T, p, "left", y)

RotrLink(T, x, y, yr, p) ==
  SetFld(SetFld(SetChildR(SetFld(
    IF yr # SENTINEL THEN SetFld(SetFld(T, x, "left", yr), yr, "parent", x)
    ELSE SetFld(T, x, "left", yr),
    y, "parent", p), p, x, y), y, "right", x), x, "parent", y)

rotr(T, x) ==
  IF T.thrown THEN T
  ELSE IF x <= SENTINEL THEN Throw(T)
  ELSE IF Fld(T, x, "left") <= SENTINEL THEN Throw(T)
  ELSE RotrLink(T, x, Fld(T, x, "left"), Fld(T, Fld(T, x, "left"), "right"),
                Fld(T, x, "parent"))

\* x.parent.color = BLACK; x.parent.parent.color = RED
Recolor(T, x) ==
  SetFld(SetFld(T, Fld(T, x, "parent"), "color", BLACK),
         Fld(T, Fld(T, x, "parent"), "parent"), "color", RED)

Grand(T, x) == Fld(T, Fld(T, x, "parent"), "parent")

InsertRotate(T, x, leftSide) ==
  IF T.thrown THEN T
  ELSE IF leftSide THEN rotr(Recolor(T, x), Grand(T, x))
  ELSE rotl(Recolor(T, x), Grand(T, x))

RECURSIVE InsertLoop(_, _)
InsertLoop(T, x) ==
  IF T.thrown THEN T
  ELSE IF x # T.root /\ Fld(T, Fld(T, x, "parent"), "color") = RED THEN
    LET p == Fld(T, x, "parent")
        g == Fld(T, p, "parent")
    IN IF g <= SENTINEL THEN Throw(T)
       ELSE IF p = Fld(T, g, "left") THEN
         LET y == Fld(T, g, "right")
         IN IF y # SENTINEL /\ Fld(T, y, "color") = RED
            THEN InsertLoop(SetFld(SetFld(SetFld(T, p, "color", BLACK),
                                          y, "color", BLACK), g, "color", RED), g)
            ELSE IF x = Fld(T, p, "right")
                 THEN InsertLoop(InsertRotate(rotl(T, p), p, TRUE), p)
                 ELSE InsertLoop(InsertRotate(T, x, TRUE), x)
       ELSE
         LET y == Fld(T, g, "left")
         IN IF y # SENTINEL /\ Fld(T, y, "color") = RED
            THEN InsertLoop(SetFld(SetFld(SetFld(T, p, "color", BLACK),
                                          y, "color", BLACK), g, "color", RED), g)
            ELSE IF x = Fld(T, p, "left")
                 THEN InsertLoop(InsertRotate(rotr(T, p), p, FALSE), p)
                 ELSE InsertLoop(InsertRotate(T, x, FALSE), x)
  ELSE SetFld(T, T.root, "color", BLACK)

insertFixup(T, x) == InsertLoop(SetFld(T, x, "color", RED), x)

Attach(T, node, key, value, parent, left) ==
  IF parent = NilPtr
  THEN insertFixup([T EXCEPT !.nodes = Put(@, node, RBTNode(key, value)),
                             !.root = node], node)
  ELSE insertFixup(SetFld([T EXCEPT !.nodes =
                             Put(@, node, [RBTNode(key, value) EXCEPT !.parent = parent])],
                          parent, IF left THEN "left" ELSE "right", node), node)

RECURSIVE InsertDescend(_, _, _, _, _, _)
InsertDescend(T, key, value, current, parent, left) ==
  IF current # SENTINEL THEN
    IF key = Fld(T, current, "key") THEN SetFld(T, current, "value", value)
    ELSE IF key < Fld(T, current, "key")
    THEN InsertDescend(T, key, value, Fld(T, current, "left"), current, TRUE)
    ELSE InsertDescend(T, key, value, Fld(T, current, "right"), current, FALSE)
  ELSE Attach(T, NewNode(T), key, value, parent, left)

insert(T, key, value) ==
  IF T.thrown THEN T ELSE InsertDescend(T, key, value, T.root, NilPtr, FALSE)

RECURSIVE DescendLeft(_, _)
DescendLeft(T, x) ==
  IF Fld(T, x, "left") # SENTINEL THEN DescendLeft(T, Fld(T, x, "left")) ELSE x

RECURSIVE ClimbRight(_, _, _)
ClimbRight(T, x, y) ==
  IF y # SENTINEL /\ x = Fld(T, y, "right")
  THEN ClimbRight(T, y, Fld(T, y, "parent")) ELSE y

successor(T, x) ==
  IF Fld(T, x, "right") # SENTINEL THEN DescendLeft(T, Fld(T, x, "right"))
  ELSE ClimbRight(T, x, Fld(T, x, "parent"))

\* min(z): z.left of the SENTINEL is null, and null.isNull() throws
RECURSIVE min(_, _)
min(T, z) ==
  IF Fld(T, z, "left") = NilPtr THEN NilPtr
  ELSE IF Fld(T, z, "left") # SENTINEL THEN min(T, Fld(T, z, "left"))
  ELSE z
RemoveCase1(T, p, w, leftSide) ==
  IF Fld(T, w, "color") = RED
  THEN IF leftSide
       THEN rotl(SetFld(SetFld(T, w, "color", BLACK), p, "color", RED), p)
       ELSE rotr(SetFld(SetFld(T, w, "color", BLACK), p, "color", RED), p)
  ELSE T

RemoveCase3(T, w, leftSide) ==
  IF leftSide
  THEN IF Fld(T, Fld(T, w, "right"), "color") = BLACK
       THEN rotr(SetFld(SetFld(T, Fld(T, w, "left"), "color", BLACK), w, "color", RED), w)
       ELSE T
  ELSE IF Fld(T, Fld(T, w, "left"), "color") = BLACK
       THEN rotl(SetFld(SetFld(T, Fld(T, w, "right"), "color", BLACK), w, "color", RED), w)
       ELSE T

RemoveCase4(T, p, w, leftSide) ==
  IF T.thrown THEN T
  ELSE IF w <= SENTINEL THEN Throw(T)
  ELSE IF leftSide
  THEN rotl(SetFld(SetFld(SetFld(T, w, "color", Fld(T, p, "color")),
                          p, "color", BLACK), Fld(T, w, "right"), "color", BLACK), p)
  ELSE rotr(SetFld(SetFld(SetFld(T, w, "color", Fld(T, p, "color")),
                          p, "color", BLACK), Fld(T, w, "left"), "color", BLACK), p)

Sibling(T, x, leftSide) ==
  IF leftSide THEN Fld(T, Fld(T, x, "parent"), "right")
  ELSE Fld(T, Fld(T, x, "parent"), "left")

RemoveCase34(T, x, leftSide) ==
  IF T.thrown THEN T
  ELSE RemoveCase4(T, Fld(T, x, "parent"), Sibling(T, x, leftSide), leftSide)

\* x = this.root ends the loop, and x.color = BLACK follows it
RemoveDone(T) == IF T.thrown THEN T ELSE SetFld(T, T.root, "color", BLACK)

RECURSIVE RemoveLoop(_, _)
RECURSIVE RemoveSide(_, _, _, _)
RemoveSide(T, x, w, leftSide) ==
  IF T.thrown THEN T
  ELSE IF w <= SENTINEL THEN Throw(T)
  ELSE IF /\ Fld(T, Fld(T, w, "left"), "color") = BLACK
          /\ Fld(T, Fld(T, w, "right"), "color") = BLACK
  THEN RemoveLoop(SetFld(T, w, "color", RED), Fld(T, x, "parent"))
  ELSE RemoveDone(RemoveCase34(RemoveCase3(T, w, leftSide), x, leftSide))

RemoveStep(T, x, leftSide) == RemoveSide(T, x, Sibling(T, x, leftSide), leftSide)

RemoveLoop(T, x) ==
  IF T.thrown THEN T
  ELSE IF x # T.root /\ Fld(T, x, "color") = BLACK THEN
    IF Fld(T, x, "parent") <= SENTINEL THEN Throw(T)
    ELSE IF x = Fld(T, Fld(T, x, "parent"), "left")
    THEN RemoveStep(RemoveCase1(T, Fld(T, x, "parent"),
                                Fld(T, Fld(T, x, "parent"), "right"), TRUE), x, TRUE)
    ELSE RemoveStep(RemoveCase1(T, Fld(T, x, "parent"),
                                Fld(T, Fld(T, x, "parent"), "left"), FALSE), x, FALSE)
  ELSE SetFld(T, x, "color", BLACK)

removeFixup(T, x) == RemoveLoop(T, x)

Splice(T, z, y, x) ==
  LET T1 == SetChild(SetFld(T, x, "parent", Fld(T, y, "parent")),
                     Fld(T, y, "parent"), y, x)
      T2 == IF y # z
            THEN SetFld(SetFld(T1, z, "key", Fld(T, y, "key")),
                        z, "value", Fld(T, y, "value"))
            ELSE T1
  IN IF Fld(T, y, "color") = BLACK THEN removeFixup(T2, x) ELSE T2

\* the node y that was spliced out is garbage from here on
Free(T, y) == [T EXCEPT !.nodes = Del(@, y)]

RemoveY(T, z, y) ==
  Free(Splice(T, z, y, IF Fld(T, y, "left") = SENTINEL
                       THEN Fld(T, y, "right") ELSE Fld(T, y, "left")), y)

removeNode(T, z) ==
  IF Fld(T, z, "left") # SENTINEL /\ Fld(T, z, "right") # SENTINEL
  THEN RemoveY(T, z, successor(T, z))
  ELSE RemoveY(T, z, z)

RECURSIVE RemoveDescend(_, _, _)
RemoveDescend(T, key, current) ==
  IF current # SENTINEL THEN
    IF key = Fld(T, current, "key") THEN removeNode(T, current)
    ELSE IF key < Fld(T, current, "key")
    THEN RemoveDescend(T, key, Fld(T, current, "left"))
    ELSE RemoveDescend(T, key, Fld(T, current, "right"))
  ELSE T

remove(T, key) == IF T.thrown THEN T ELSE RemoveDescend(T, key, T.root)

RECURSIVE SearchFrom(_, _, _)
SearchFrom(T, key, current) ==
  IF current # SENTINEL THEN
    IF key = Fld(T, current, "key") THEN Fld(T, current, "value")
    ELSE IF key < Fld(T, current, "key")
    THEN SearchFrom(T, key, Fld(T, current, "left"))
    ELSE SearchFrom(T, key, Fld(T, current, "right"))
  ELSE NoValue

search(T, key) == SearchFrom(T, key, T.root)

\* the node closest to gte from above
RECURSIVE Closest(_, _, _, _)
Closest(T, gte, root, current) ==
  IF root # SENTINEL THEN
    IF gte = Fld(T, root, "key") THEN root
    ELSE IF gte < Fld(T, root, "key")
    THEN Closest(T, gte, Fld(T, root, "left"), root)
    ELSE Closest(T, gte, Fld(T, root, "right"), current)
  ELSE current

RECURSIVE Walk(_, _, _, _)
Walk(T, current, lte, items) ==
  IF current # SENTINEL
  THEN IF lte # NoKey /\ Fld(T, current, "key") > lte THEN items
       ELSE Walk(T, successor(T, current), lte,
                 Append(items, RBTData(Fld(T, current, "key"), Fld(T, current, "value"))))
  ELSE items

RangeFrom(T, current, lte) ==
  IF current = NilPtr THEN [thrown |-> TRUE, items |-> <<>>]
  ELSE [thrown |-> FALSE, items |-> Walk(T, current, lte, <<>>)]

range(T, gte, lte) ==
  IF gte # NoKey THEN RangeFrom(T, Closest(T, gte, T.root, SENTINEL), lte)
  ELSE RangeFrom(T, min(T, T.root), lte)

(* Addresses are compared only within one call, and SENTINEL.parent is written
   by removeNode before removeFixup reads it: between calls a tree is kept
   with its nodes numbered in key order and SENTINEL.parent cleared. *)
RECURSIVE InOrder(_, _)
InOrder(T, x) ==
  IF x = SENTINEL THEN <<>>
  ELSE InOrder(T, Fld(T, x, "left")) \o <<x>> \o InOrder(T, Fld(T, x, "right"))

Rank(order, p) == IF p <= SENTINEL THEN p ELSE CHOOSE i \in 1..Len(order) : order[i] = p

Renumber(T, order) ==
  [root |-> Rank(order, T.root),
   nodes |-> [i \in 0..Len(order) |->
               IF i = 0 THEN [T.nodes[SENTINEL] EXCEPT !.parent = NilPtr]
               ELSE [T.nodes[order[i]] EXCEPT !.parent = Rank(order, @),
                                              !.left = Rank(order, @),
                                              !.right = Rank(order, @)]],
   thrown |-> T.thrown]

Canon(T) == IF T.thrown THEN T ELSE Renumber(T, InOrder(T, T.root))

-----------------------------------------------------------------------------
(* The store's calls, each made on a store that earlier calls left behind:
   live is the sorted map the calls so far describe. *)

MaxBatch == 2

NoIter == [made |-> FALSE, ended |-> FALSE]

BatchOp(type, key, value) == [type |-> type, key |-> key, value |-> value]

BatchOps(K) ==
  {BatchOp("put", k, v) : k \in K, v \in Vals} \cup {BatchOp("del", k, NoValue) : k \in K}

Batches(K) == UNION {[1..n -> BatchOps(K)] : n \in 1..MaxBatch}

RECURSIVE BatchWriteOps(_, _, _)
BatchWriteOps(T, ops, i) ==
  IF i > Len(ops) THEN T
  ELSE IF ops[i].type = "put"
  THEN BatchWriteOps(insert(T, ops[i].key, ops[i].value), ops, i + 1)
  ELSE BatchWriteOps(remove(T, ops[i].key), ops, i + 1)

RECURSIVE LiveAfter(_, _, _)
LiveAfter(live, ops, i) ==
  IF i > Len(ops) THEN live
  ELSE IF ops[i].type = "put"
  THEN LiveAfter(Put(live, ops[i].key, ops[i].value), ops, i + 1)
  ELSE LiveAfter(Del(live, ops[i].key), ops, i + 1)

\* get(key, callback)
RbtGetResult(value) ==
  IF value = NoValue THEN [thrown |-> FALSE, err |-> "NotFoundError", value |-> NoValue]
  ELSE [thrown |-> FALSE, err |-> "null", value |-> value]

\* as if an iterator read the tree's nodes, and not the copies range() made
Written_Shared(U, op, ops, T) ==
  [U EXCEPT !.op = op, !.tree = Canon(T),
            !.live = LiveAfter(U.live, ops, 1), !.ret = [thrown |-> T.thrown],
            !.it = IF U.it.made /\ U.it.tree
                   THEN [@ EXCEPT !.snapshot.items = range(Canon(T), U.it.gte, U.it.lte).items]
                   ELSE @]

Written(U, op, ops, T) ==
  [U EXCEPT !.op = op, !.tree = Canon(T),
            !.live = LiveAfter(U.live, ops, 1), !.ret = [thrown |-> T.thrown]]

\* a call whose result was read, or that threw, is the last one of its run
Writable ==
  /\ unit.fn = "rbt"
  /\ unit.op \notin {"get", "range"}
  /\ ~unit.tree.thrown
  /\ ~unit.ret.thrown

RbtNew ==
  /\ unit.fn = "none"
  /\ unit' = [fn |-> "rbt", tree |-> RBT, live |-> EmptyMap, op |-> "new",
              gte |-> NoKey, lte |-> NoKey, ret |-> [thrown |-> FALSE], it |-> NoIter,
              created |-> <<>>, yielded |-> <<>>, exhausted |-> FALSE]
  /\ UNCHANGED <<chainVars, mp, done, calls, walletVars>>

RbtPut(K) ==
  /\ Writable
  /\ \E k \in K, v \in Vals :
       unit' = Written(unit, "put", <<BatchOp("put", k, v)>>, insert(unit.tree, k, v))
  /\ UNCHANGED <<chainVars, mp, done, calls, walletVars>>

RbtDel(K) ==
  /\ Writable
  /\ \E k \in K :
       unit' = Written(unit, "del", <<BatchOp("del", k, NoValue)>>, remove(unit.tree, k))
  /\ UNCHANGED <<chainVars, mp, done, calls, walletVars>>

RbtBatch(K) ==
  /\ Writable
  /\ \E ops \in Batches(K) :
       unit' = Written(unit, "batch", ops, BatchWriteOps(unit.tree, ops, 1))
  /\ UNCHANGED <<chainVars, mp, done, calls, walletVars>>

RbtGet ==
  /\ Writable
  /\ unit.it = NoIter
  /\ \E k \in Keys :
       unit' = [unit EXCEPT !.op = "get", !.gte = k,
                            !.ret = RbtGetResult(search(unit.tree, k))]
  /\ UNCHANGED <<chainVars, mp, done, calls, walletVars>>

RbtRange ==
  /\ Writable
  /\ unit.it = NoIter
  /\ \E gte \in {NoKey} \cup Keys, lte \in {NoKey} \cup Keys :
       unit' = [unit EXCEPT !.op = "range", !.gte = gte, !.lte = lte,
                            !.ret = range(unit.tree, gte, lte)]
  /\ UNCHANGED <<chainVars, mp, done, calls, walletVars>>

NextStore == RbtNew \/ RbtPut(Keys) \/ RbtDel(Keys) \/ RbtBatch(Keys) \/ RbtGet \/ RbtRange

SpecStore == Init /\ [][NextStore]_vars

\* the live keys of a sorted map within [gte, lte], ascending
RECURSIVE LiveRange(_, _, _, _)
LiveRange(live, k, gte, lte) ==
  IF k > MaxKey THEN <<>>
  ELSE IF Has(live, k) /\ (gte = NoKey \/ k >= gte) /\ (lte = NoKey \/ k <= lte)
  THEN <<RBTData(k, live[k])>> \o LiveRange(live, k + 1, gte, lte)
  ELSE LiveRange(live, k + 1, gte, lte)

\* C38: after any sequence of put, del and batch the store is a sorted map:
\* get(k) returns the value most recently put for k and not since deleted,
\* not-found otherwise, and a range scan returns exactly the live keys within
\* its bounds, each once, in ascending order.
C38_Original ==
  unit.fn = "rbt" =>
    /\ ~unit.tree.thrown
    /\ unit.op = "get" =>
         /\ ~unit.ret.thrown
         /\ IF Has(unit.live, unit.gte)
            THEN unit.ret.err = "null" /\ unit.ret.value = unit.live[unit.gte]
            ELSE unit.ret.err = "NotFoundError"
    /\ unit.op = "range" =>
         /\ ~unit.ret.thrown
         /\ unit.ret.items = LiveRange(unit.live, 1, unit.gte, unit.lte)

-----------------------------------------------------------------------------
(* Iterator: made over a store that earlier calls left behind, then read with
   next() and closed with end() while put, del and batch go on.  created is
   what the store held within gte and lte when the iterator was made, yielded
   the items next() has handed to its callback, exhausted whether next() has
   reported end-of-data. *)

MaxIterKey == 2

IterKeys == 1..MaxIterKey

\* options.limit that was not given
NoLimit == -1

IterBounds == {NoKey} \cup IterKeys

IterLimits == {NoLimit, 1}

IterOut(kind, key, value) ==
  [thrown |-> kind = "TypeError", kind |-> kind, key |-> key, value |-> value]

\* new Iterator(tree, options); the index is the JS array index, from 0
Iterator(T, gte, lte, reverse, limit, snapshot) ==
  [made |-> TRUE, gte |-> gte, lte |-> lte, reverse |-> reverse, limit |-> limit,
   tree |-> TRUE, ended |-> FALSE,
   snapshot |-> [null |-> FALSE, items |-> snapshot],
   index |-> IF reverse THEN Len(snapshot) - 1 ELSE 0,
   total |-> 0]

IterEnd_(I) ==
  IF ~I.tree THEN I
  ELSE [I EXCEPT !.tree = FALSE, !.snapshot = [null |-> TRUE, items |-> <<>>]]

IterMove(I) == [I EXCEPT !.index = IF I.reverse THEN @ - 1 ELSE @ + 1]

\* this.snapshot[this.index]
IterItem(I) ==
  IF I.index >= 0 /\ I.index < Len(I.snapshot.items)
  THEN I.snapshot.items[I.index + 1] ELSE Null

IterDeliver(I, item) ==
  IF item = Null
  THEN [it |-> IterEnd_(I), out |-> IterOut("end", NoKey, NoValue)]
  ELSE [it |-> I, out |-> IterOut("item", item.key, item.value)]

IterNextItem(I, item) ==
  IF I.limit # NoLimit
  THEN IF I.total >= I.limit
       THEN [it |-> IterEnd_([I EXCEPT !.total = @ + 1]),
             out |-> IterOut("end", NoKey, NoValue)]
       ELSE IterDeliver([I EXCEPT !.total = @ + 1], item)
  ELSE IterDeliver(I, item)

IterNextCall(I) ==
  IF I.ended THEN [it |-> I, out |-> IterOut("error", NoKey, NoValue)]
  ELSE IF I.snapshot.null
  THEN [it |-> IterMove(I), out |-> IterOut("TypeError", NoKey, NoValue)]
  ELSE IterNextItem(IterMove(I), IterItem(I))

IterEndCall(I) ==
  IF I.ended THEN [it |-> I, out |-> IterOut("error", NoKey, NoValue)]
  ELSE [it |-> IterEnd_([I EXCEPT !.ended = TRUE]), out |-> IterOut("ok", NoKey, NoValue)]

IterMade(U, gte, lte, reverse, limit, R) ==
  IF R.thrown
  THEN [U EXCEPT !.op = "iterator", !.gte = gte, !.lte = lte, !.ret = [thrown |-> TRUE]]
  ELSE [U EXCEPT !.op = "iterator", !.gte = gte, !.lte = lte, !.ret = [thrown |-> FALSE],
                 !.it = Iterator(U.tree, gte, lte, reverse, limit, R.items),
                 !.created = LiveRange(U.live, 1, gte, lte)]

IterNew ==
  /\ Writable
  /\ ~unit.it.made
  /\ \E gte \in IterBounds, lte \in IterBounds, reverse \in BOOLEAN, limit \in IterLimits :
       unit' = IterMade(unit, gte, lte, reverse, limit, range(unit.tree, gte, lte))
  /\ UNCHANGED <<chainVars, mp, done, calls, walletVars>>

IterCalled(U, op, R) ==
  [U EXCEPT !.op = op, !.it = R.it, !.ret = R.out,
            !.yielded = IF R.out.kind = "item"
                        THEN Append(@, RBTData(R.out.key, R.out.value)) ELSE @,
            !.exhausted = @ \/ (op = "next" /\ R.out.kind = "end")]

IterNext ==
  /\ Writable
  /\ unit.it.made
  /\ unit' = IterCalled(unit, "next", IterNextCall(unit.it))
  /\ UNCHANGED <<chainVars, mp, done, calls, walletVars>>

IterEnd ==
  /\ Writable
  /\ unit.it.made
  /\ unit' = IterCalled(unit, "end", IterEndCall(unit.it))
  /\ UNCHANGED <<chainVars, mp, done, calls, walletVars>>

NextIter ==
  \/ RbtNew \/ RbtPut(IterKeys) \/ RbtDel(IterKeys) \/ RbtBatch({MaxIterKey})
  \/ IterNew \/ IterNext \/ IterEnd

SpecIter == Init /\ [][NextIter]_vars

\* what an iterator is to yield: the items within gte and lte, from the far
\* end when reverse, no more than limit of them
Take(xs, limit) ==
  IF limit = NoLimit \/ limit >= Len(xs) THEN xs ELSE SubSeq(xs, 1, limit)

Expected(U) == Take(IF U.it.reverse THEN Reverse(U.created) ELSE U.created, U.it.limit)

IsPrefix(xs, ys) == Len(xs) <= Len(ys) /\ xs = SubSeq(ys, 1, Len(xs))

\* C39: an iterator yields exactly the keys and values the store held within
\* its bounds (gte, lte, and limit when given) when it was created, whatever
\* put, del or batch did between its creation and its exhaustion: what it has
\* yielded so far is the start of that list, and all of it once exhausted.
C39_SnapshotYielded ==
  (unit.fn = "rbt" /\ unit.it.made) =>
    /\ IsPrefix(unit.yielded, Expected(unit))
    /\ unit.exhausted => unit.yielded = Expected(unit)

C39_Witness ==
  /\ unit.fn = "rbt" /\ unit.it.made /\ unit.exhausted
  /\ Len(unit.yielded) = 2
  /\ unit.it.gte = NoKey /\ unit.it.lte = 2
  /\ unit.live # [k \in {1, 2} |-> unit.yielded[k].value]
  /\ unit.yielded = <<RBTData(1, "a"), RBTData(2, "a")>>

\* C40: once next() has reported end-of-data, every further next() calls
\* back with end-of-data or an error, the first end() succeeds, and no call
\* throws.
C40_Original ==
  [][(unit.fn = "rbt" /\ unit.it.made /\ unit.exhausted) =>
       /\ unit'.op \in {"next", "end"} => ~unit'.ret.thrown
       /\ unit'.op = "next" => unit'.ret.kind \in {"end", "error"}
       /\ (unit'.op = "end" /\ ~unit.it.ended) => unit'.ret.kind = "ok"]_vars

====
